---- MODULE Spec2Model ----
(***************************************************************************)
(* Model of the session / request resiliency core of the Elate chatbot     *)
(* backend: CircuitBreaker, retry_on_failure, RetryMiddleware,             *)
(* EdgeCaseHandlingMiddleware (exception mapping) and the UserSession      *)
(* lifecycle driven by SessionManagementMiddleware.                        *)
(*                                                                         *)
(* The components do not share state, so each has its own specification    *)
(* over its own variables; the variables of the other components are held  *)
(* at their initial values.                                                *)
(***************************************************************************)
EXTENDS Integers, Sequences, FiniteSets, TLC

VARIABLES
    \* ---- CircuitBreaker (edge_case_middleware.py:37-80) ----
    failure_threshold,    \* self.failure_threshold
    recovery_timeout,     \* self.recovery_timeout
    expected_exception,   \* self.expected_exception (a class of errors)
    failure_count,        \* self.failure_count
    last_failure_time,    \* self.last_failure_time (NoTime = None)
    state,                \* self.state
    now,                  \* time.time()
    cpc,                  \* position of each caller inside call()
    cb_call,              \* per caller: the locals and the outcome of its call
    streak,               \* failing calls since the last successful one
    \* ---- EdgeCaseHandlingMiddleware (edge_case_middleware.py:83-428) ----
    circuit_breakers,     \* self.circuit_breakers: service name -> CircuitBreaker
    debug,                \* settings.DEBUG
    pl_last,              \* the last exception handled and the response made
    pl_timeouts,          \* per service: Timeout errors handled in a row
    \* ---- retry_on_failure (edge_case_middleware.py:585-619) ----
    rt_max_retries,       \* max_retries
    rt_delay,             \* delay
    rt_backoff_factor,    \* backoff_factor
    rt_exceptions,        \* exceptions (the class caught)
    rt_attempt,           \* attempt, the loop variable
    rt_pc,                \* position inside wrapper()
    rt_last_exception,    \* last_exception
    rt_invocations,       \* calls of func made by this run
    rt_raised,            \* the exceptions func raised, in order
    rt_slept,             \* the arguments of time.sleep, in order
    rt_result,            \* how wrapper() ended
    \* ---- RetryMiddleware._should_retry (edge_case_middleware.py:470-492) ----
    sr_method,            \* request.method
    sr_exception,         \* the exception: its class and its status_code
    sr_result,            \* the value returned
    \* ---- UserSession / SessionManagementMiddleware (users/) ----
    user_sessions,        \* the user_sessions table: row id -> row
    django_sessions,      \* per session key: whether the django Session exists, and its user
    max_concurrent_sessions, \* settings.MAX_CONCURRENT_SESSIONS
    clock,                \* timezone.now(), in hours
    workers,              \* per worker: its request, its position, its locals
    sweep,                \* the cleanup run: its position, the rows it selected
    requests,             \* requests received so far
    \* ---- _check_session_consistency (users/middleware.py:245-268) ----
    sc_stored,            \* request.user_session: None, or its user agent and address
    sc_incoming,          \* the request's user agent and address
    sc_result,            \* the value returned
    \* ---- _detect_suspicious_activity (users/middleware.py:270-290) ----
    request_rate,         \* the cache: request_rate:<ip>:<user id> -> count, 0 when not set
    rd_last,              \* the last request checked and the value returned
    \* ---- one request through both process_request methods ----
    rq,                   \* the request, the stages it went through, its response
    \* ---- GracefulDegradationMiddleware (edge_case_middleware.py:495-582) ----
    dg,                   \* the request, the dependencies, request.degradation_mode
    \* ---- RetryMiddleware (edge_case_middleware.py:431-492) ----
    rm,                   \* the request, its retry context, the calls of its view
    \* ---- _detect_suspicious_activity with the cache's clock (users/middleware.py:270-290) ----
    rw                    \* the clock, the cache entry of one key, the requests counted

cbVars == <<failure_threshold, recovery_timeout, expected_exception,
            failure_count, last_failure_time, state, now, cpc, cb_call, streak>>

plVars == <<circuit_breakers, debug, pl_last, pl_timeouts>>

rtVars == <<rt_max_retries, rt_delay, rt_backoff_factor, rt_exceptions, rt_attempt,
            rt_pc, rt_last_exception, rt_invocations, rt_raised, rt_slept, rt_result>>

srVars == <<sr_method, sr_exception, sr_result>>

ssVars == <<user_sessions, django_sessions, max_concurrent_sessions, clock, workers,
            sweep, requests>>

scVars == <<sc_stored, sc_incoming, sc_result>>

rdVars == <<request_rate, rd_last>>

rqVars == <<rq>>

dgVars == <<dg>>

rmVars == <<rm>>

rwVars == <<rw>>

vars == <<cbVars, plVars, rtVars, srVars, ssVars, scVars, rdVars, rqVars, dgVars, rmVars, rwVars>>

\* What the actions of one component leave alone.
notCb == <<plVars, rtVars, srVars, ssVars, scVars, rdVars, rqVars, dgVars, rmVars, rwVars>>
notPl == <<cbVars, rtVars, srVars, ssVars, scVars, rdVars, rqVars, dgVars, rmVars, rwVars>>
notRt == <<cbVars, plVars, srVars, ssVars, scVars, rdVars, rqVars, dgVars, rmVars, rwVars>>
notSr == <<cbVars, plVars, rtVars, ssVars, scVars, rdVars, rqVars, dgVars, rmVars, rwVars>>
notSs == <<cbVars, plVars, rtVars, srVars, scVars, rdVars, rqVars, dgVars, rmVars, rwVars>>
notSc == <<cbVars, plVars, rtVars, srVars, ssVars, rdVars, rqVars, dgVars, rmVars, rwVars>>
notRd == <<cbVars, plVars, rtVars, srVars, ssVars, scVars, rqVars, dgVars, rmVars, rwVars>>
notRq == <<cbVars, plVars, rtVars, srVars, ssVars, scVars, rdVars, dgVars, rmVars, rwVars>>
notDg == <<cbVars, plVars, rtVars, srVars, ssVars, scVars, rdVars, rqVars, rmVars, rwVars>>
notRm == <<cbVars, plVars, rtVars, srVars, ssVars, scVars, rdVars, rqVars, dgVars, rwVars>>
notRw == <<cbVars, plVars, rtVars, srVars, ssVars, scVars, rdVars, rqVars, dgVars, rmVars>>

-----------------------------------------------------------------------------
(* Bounds of the model *)
MaxThreshold == 3
MaxRecovery == 2
MaxTime == 6
NumCallers == 2
MaxHandled == 7
MaxRetries == 3
MaxDelay == 2
MaxBackoff == 2
MaxClock == 2
MaxRequests == 3
MaxLimit == 2

-----------------------------------------------------------------------------
(* CircuitBreaker *)

NoTime == -1

Callers == 1..NumCallers

\* The callers of the specification in which calls are made one at a time.
SerialCallers == {1}

\* The classes an instance may monitor: Exception itself, or a subclass of it.
ExceptionClasses == {"Exception", "NarrowError"}

\* What the wrapped operation may raise: an instance of the subclass, or an
\* Exception that is not an instance of the subclass.
OpErrors == {"NarrowError", "OtherError"}

OpValues == {"v1", "v2"}

\* isinstance(e, cls) for the errors above.
IsInstance(e, cls) == cls = "Exception" \/ e = cls

NoCall == [made |-> FALSE, startState |-> "none", startTime |-> NoTime,
           startStamp |-> NoTime, countBefore |-> 0, invoked |-> 0, stateAtInvoke |-> "none",
           outcome |-> "none", result |-> "none", value |-> "none",
           endTime |-> NoTime, loaded |-> 0]

\* CircuitBreaker.__init__(failure_threshold, recovery_timeout, expected_exception)
CbStart(threshold, timeout, expected) ==
    /\ failure_threshold = threshold
    /\ recovery_timeout = timeout
    /\ expected_exception = expected
    /\ failure_count = 0
    /\ last_failure_time = NoTime
    /\ state = "CLOSED"
    /\ now = 0
    /\ cpc = [t \in Callers |-> "idle"]
    /\ cb_call = [t \in Callers |-> NoCall]
    /\ streak = 0

CbInit ==
    \E threshold \in 1..MaxThreshold, timeout \in 1..MaxRecovery,
       expected \in ExceptionClasses : CbStart(threshold, timeout, expected)

\* The breaker left alone, in the specifications of the other components.
CbParked == CbStart(1, 1, "Exception")

\* time.time() - self.last_failure_time > self.recovery_timeout
RecoveryElapsed_ge == now - last_failure_time >= recovery_timeout
RecoveryElapsed == now - last_failure_time > recovery_timeout

\* The state call() leaves an OPEN breaker in once the timeout has elapsed.
TrialState_open == "OPEN"
TrialState == "HALF_OPEN"

\* call(), lines 54-58: the OPEN check.
call_enter_postponing(t) ==
    /\ cpc[t] = "idle"
    /\ LET rec == [NoCall EXCEPT !.made = TRUE, !.startState = state,
                                 !.startTime = now, !.startStamp = last_failure_time,
                                 !.countBefore = failure_count]
       IN IF state = "OPEN"
          THEN IF RecoveryElapsed
               THEN /\ state' = TrialState
                    /\ last_failure_time' = last_failure_time
                    /\ cpc' = [cpc EXCEPT ![t] = "invoke"]
                    /\ cb_call' = [cb_call EXCEPT ![t] = rec]
               ELSE /\ state' = state
                    /\ cpc' = cpc
                    /\ last_failure_time' = now
                    /\ cb_call' = [cb_call EXCEPT ![t] =
                           [rec EXCEPT !.result = "circuit_open", !.endTime = now]]
          ELSE /\ state' = state
               /\ cpc' = [cpc EXCEPT ![t] = "invoke"]
               /\ last_failure_time' = last_failure_time
               /\ cb_call' = [cb_call EXCEPT ![t] = rec]
    /\ UNCHANGED <<notCb, failure_threshold, recovery_timeout, expected_exception,
                   failure_count, now, streak>>
call_enter(t) ==
    /\ cpc[t] = "idle"
    /\ LET rec == [NoCall EXCEPT !.made = TRUE, !.startState = state,
                                 !.startTime = now, !.startStamp = last_failure_time,
                                 !.countBefore = failure_count]
       IN IF state = "OPEN"
          THEN IF RecoveryElapsed
               THEN /\ state' = TrialState
                    /\ cpc' = [cpc EXCEPT ![t] = "invoke"]
                    /\ cb_call' = [cb_call EXCEPT ![t] = rec]
               ELSE /\ state' = state
                    /\ cpc' = cpc
                    /\ cb_call' = [cb_call EXCEPT ![t] =
                           [rec EXCEPT !.result = "circuit_open", !.endTime = now]]
          ELSE /\ state' = state
               /\ cpc' = [cpc EXCEPT ![t] = "invoke"]
               /\ cb_call' = [cb_call EXCEPT ![t] = rec]
    /\ UNCHANGED <<notCb, failure_threshold, recovery_timeout, expected_exception,
                   failure_count, last_failure_time, now, streak>>

\* call(), lines 60-66: func(*args, **kwargs) returns or raises.
call_invoke(t) ==
    /\ cpc[t] = "invoke"
    /\ \E out \in OpValues \cup OpErrors :
         LET rec == [cb_call[t] EXCEPT !.invoked = @ + 1, !.stateAtInvoke = state,
                                       !.outcome = out]
         IN IF out \in OpValues
            THEN /\ cpc' = [cpc EXCEPT ![t] = "on_success"]
                 /\ cb_call' = [cb_call EXCEPT ![t] = rec]
                 /\ streak' = 0
            ELSE IF IsInstance(out, expected_exception)
            THEN /\ cpc' = [cpc EXCEPT ![t] = "on_failure"]
                 /\ cb_call' = [cb_call EXCEPT ![t] = rec]
                 /\ streak' = streak + 1
            ELSE \* not caught by "except self.expected_exception": propagates
                 /\ cpc' = [cpc EXCEPT ![t] = "idle"]
                 /\ cb_call' = [cb_call EXCEPT ![t] =
                        [rec EXCEPT !.result = "raised", !.value = out, !.endTime = now]]
                 /\ streak' = streak
    /\ UNCHANGED <<notCb, failure_threshold, recovery_timeout, expected_exception,
                   failure_count, last_failure_time, state, now>>

\* _on_success(), then "return result".
CountAfterSuccess_keep == failure_count
CountAfterSuccess == 0

on_success(t) ==
    /\ cpc[t] = "on_success"
    /\ failure_count' = CountAfterSuccess
    /\ state' = "CLOSED"
    /\ cpc' = [cpc EXCEPT ![t] = "idle"]
    /\ cb_call' = [cb_call EXCEPT ![t] =
           [@ EXCEPT !.result = "returned", !.value = cb_call[t].outcome, !.endTime = now]]
    /\ UNCHANGED <<notCb, failure_threshold, recovery_timeout, expected_exception,
                   last_failure_time, now, streak>>

\* _on_failure(), line 78: self.failure_count >= self.failure_threshold
ThresholdReached_gt(n) == n > failure_threshold
ThresholdReached(n) == n >= failure_threshold

\* _on_failure(), line 76: self.last_failure_time = time.time()
FailureStamp_first == IF last_failure_time = NoTime THEN now ELSE last_failure_time
FailureStamp == now

\* _on_failure(), then "raise e".
on_failure_unstamped(t) ==
    /\ cpc[t] = "on_failure"
    /\ failure_count' = failure_count + 1
    /\ last_failure_time' = last_failure_time
    /\ state' = IF ThresholdReached(failure_count + 1) THEN "OPEN" ELSE state
    /\ cpc' = [cpc EXCEPT ![t] = "idle"]
    /\ cb_call' = [cb_call EXCEPT ![t] =
           [@ EXCEPT !.result = "raised", !.value = cb_call[t].outcome, !.endTime = now]]
    /\ UNCHANGED <<notCb, failure_threshold, recovery_timeout, expected_exception, now, streak>>
on_failure(t) ==
    /\ cpc[t] = "on_failure"
    /\ failure_count' = failure_count + 1
    /\ last_failure_time' = FailureStamp
    /\ state' = IF ThresholdReached(failure_count + 1) THEN "OPEN" ELSE state
    /\ cpc' = [cpc EXCEPT ![t] = "idle"]
    /\ cb_call' = [cb_call EXCEPT ![t] =
           [@ EXCEPT !.result = "raised", !.value = cb_call[t].outcome, !.endTime = now]]
    /\ UNCHANGED <<notCb, failure_threshold, recovery_timeout, expected_exception, now, streak>>

\* The clock advances, also while a call is in progress.
Tick ==
    /\ now < MaxTime
    /\ now' = now + 1
    /\ UNCHANGED <<notCb, failure_threshold, recovery_timeout, expected_exception,
                   failure_count, last_failure_time, state, cpc, cb_call, streak>>

\* _on_failure() when other threads call the same breaker: no lock is taken,
\* and "self.failure_count += 1" reads the attribute, adds, and writes it.
on_failure_load(t) ==
    /\ cpc[t] = "on_failure"
    /\ cpc' = [cpc EXCEPT ![t] = "on_failure_store"]
    /\ cb_call' = [cb_call EXCEPT ![t].loaded = failure_count]
    /\ UNCHANGED <<notCb, failure_threshold, recovery_timeout, expected_exception,
                   failure_count, last_failure_time, state, now, streak>>

\* The write of "+=", lines 76-79, then "raise e".
on_failure_store(t) ==
    /\ cpc[t] = "on_failure_store"
    /\ failure_count' = cb_call[t].loaded + 1
    /\ last_failure_time' = FailureStamp
    /\ state' = IF ThresholdReached(cb_call[t].loaded + 1) THEN "OPEN" ELSE state
    /\ cpc' = [cpc EXCEPT ![t] = "idle"]
    /\ cb_call' = [cb_call EXCEPT ![t] =
           [@ EXCEPT !.result = "raised", !.value = cb_call[t].outcome, !.endTime = now]]
    /\ UNCHANGED <<notCb, failure_threshold, recovery_timeout, expected_exception, now, streak>>

\* A breaker that as many failures as there are callers, or fewer, open.
CbInitConcurrent ==
    \E threshold \in 1..NumCallers : CbStart(threshold, 1, "Exception")

\* The clock advances, as far as it takes the recovery timeout to elapse
\* after a failure at the start.
concurrent_tick ==
    /\ now <= recovery_timeout
    /\ Tick

\* Requests served by threads that share the breaker.
CbNextConcurrent ==
    \/ \E t \in Callers : call_enter(t)
    \/ \E t \in Callers : call_invoke(t)
    \/ \E t \in Callers : on_success(t)
    \/ \E t \in Callers : on_failure_load(t)
    \/ \E t \in Callers : on_failure_store(t)
    \/ concurrent_tick

CbNext ==
    \/ \E t \in SerialCallers : call_enter(t)
    \/ \E t \in SerialCallers : call_invoke(t)
    \/ \E t \in SerialCallers : on_success(t)
    \/ \E t \in SerialCallers : on_failure(t)
    \/ Tick

-----------------------------------------------------------------------------
(* EdgeCaseHandlingMiddleware: the mapping of exceptions to responses *)

\* Request paths, as their lower-case segments.
Paths == { <<"api", "v1", "chatbot", "openai">>,
           <<"api", "v1", "email", "send">>,
           <<"api", "v1", "sms", "send">>,
           <<"api", "v1", "chatbot", "conversations">> }

\* 'word' in request.path.lower()
Contains(path, word) == \E i \in DOMAIN path : path[i] = word

\* _get_service_name_from_request
get_service_name_from_request(path) ==
    IF Contains(path, "openai") THEN "openai"
    ELSE IF Contains(path, "email") THEN "email"
    ELSE IF Contains(path, "sms") THEN "sms"
    ELSE "none"

\* The exceptions a handler may raise, and their base classes.
Exceptions == {"OperationalError", "DatabaseError", "ValidationError",
               "PermissionDenied", "Http404", "Timeout", "ConnectionError",
               "RequestException", "RedisError", "Exception"}

Bases(e) ==
    CASE e = "OperationalError" -> {"OperationalError", "DatabaseError", "Exception"}
      [] e = "Timeout" -> {"Timeout", "RequestException", "Exception"}
      [] e = "ConnectionError" -> {"ConnectionError", "RequestException", "Exception"}
      [] OTHER -> {e, "Exception"}

IsA(e, cls) == cls \in Bases(e)

\* The thresholds _get_circuit_breaker constructs a breaker with.
PipelineFailureThreshold == 5
PipelineRecoveryTimeout == 60

\* CircuitBreaker(failure_threshold=5, recovery_timeout=60)
NewBreaker == [failure_threshold |-> PipelineFailureThreshold,
               recovery_timeout |-> PipelineRecoveryTimeout,
               failure_count |-> 0, last_failure_time |-> NoTime, state |-> "CLOSED"]

\* _get_circuit_breaker: the registry after the lookup of service_name.
get_circuit_breaker(breakers, service_name) ==
    IF service_name \notin DOMAIN breakers
    THEN (service_name :> NewBreaker) @@ breakers
    ELSE breakers

Response(status, code) == [status |-> status, code |-> code]

\* "return None": the middleware makes no response.
NoResponse == Response(0, "none")

\* _handle_external_api_error: the response, given the registry after the
\* lookup. The breaker is read, never told of the failure.
handle_external_api_error(breakers, path, e) ==
    LET service_name == get_service_name_from_request(path)
    IN IF service_name # "none" /\ breakers[service_name].state = "OPEN"
       THEN Response(503, "EXTERNAL_SERVICE_UNAVAILABLE")
       ELSE IF IsA(e, "Timeout") THEN Response(502, "EXTERNAL_SERVICE_TIMEOUT")
       ELSE IF IsA(e, "ConnectionError")
            THEN Response(502, "EXTERNAL_SERVICE_CONNECTION_ERROR")
       ELSE Response(502, "EXTERNAL_SERVICE_ERROR")

\* _handle_database_error, _handle_generic_error: no 'code' under DEBUG.
handle_database_error_generic ==
    IF debug THEN Response(500, "none") ELSE Response(500, "INTERNAL_ERROR")
handle_database_error ==
    IF debug THEN Response(500, "none") ELSE Response(500, "DATABASE_ERROR")

handle_generic_error ==
    IF debug THEN Response(500, "none") ELSE Response(500, "INTERNAL_ERROR")

\* process_exception: the isinstance chain, given the registry after the
\* lookup. NoResponse is the None of _handle_cache_error.
exception_response(breakers, path, e) ==
    IF IsA(e, "DatabaseError") THEN handle_database_error
    ELSE IF IsA(e, "ValidationError") THEN Response(400, "VALIDATION_ERROR")
    ELSE IF IsA(e, "PermissionDenied") THEN Response(403, "PERMISSION_DENIED")
    ELSE IF IsA(e, "Http404") THEN Response(404, "NOT_FOUND")
    ELSE IF IsA(e, "RequestException")
         THEN handle_external_api_error(breakers, path, e)
    ELSE IF IsA(e, "RedisError") THEN NoResponse
    ELSE handle_generic_error

NoneHandled == [path |-> <<>>, exception |-> "none", service |-> "none",
                nth |-> 0, response |-> NoResponse]

PlStart(d) ==
    /\ circuit_breakers = <<>>
    /\ debug = d
    /\ pl_last = NoneHandled
    /\ pl_timeouts = [s \in {"openai", "email", "sms"} |-> 0]

PlInit == \E d \in BOOLEAN : PlStart(d)

PlParked == PlStart(FALSE)

\* process_exception(request, exception)
process_exception(path, e) ==
    LET service_name == get_service_name_from_request(path)
        external == ~IsA(e, "DatabaseError") /\ ~IsA(e, "ValidationError")
                    /\ ~IsA(e, "PermissionDenied") /\ ~IsA(e, "Http404")
                    /\ IsA(e, "RequestException")
        breakers == IF external /\ service_name # "none"
                    THEN get_circuit_breaker(circuit_breakers, service_name)
                    ELSE circuit_breakers
        nth == IF service_name # "none" /\ IsA(e, "Timeout")
               THEN pl_timeouts[service_name] + 1 ELSE 0
        response == exception_response(breakers, path, e)
    IN /\ service_name # "none" => pl_timeouts[service_name] < MaxHandled
       /\ circuit_breakers' = breakers
       /\ pl_last' = [path |-> path, exception |-> e, service |-> service_name,
                      nth |-> nth, response |-> response]
       /\ pl_timeouts' = IF service_name = "none" THEN pl_timeouts
                         ELSE [pl_timeouts EXCEPT ![service_name] = nth]
       /\ UNCHANGED <<notPl, debug>>

PlNext == \E path \in Paths, e \in Exceptions : process_exception(path, e)


\* C6: after 5 Timeout errors in a row handled for requests whose path names
\* a monitored dependency, each answered with 502, the next one is answered
\* with 503 and code EXTERNAL_SERVICE_UNAVAILABLE.
C6_SixthTimeoutShortCircuits ==
    (pl_last.exception = "Timeout" /\ pl_last.nth > PipelineFailureThreshold)
        => pl_last.response = Response(503, "EXTERNAL_SERVICE_UNAVAILABLE")

\* The sixth Timeout in a row of the openai dependency has been handled, and
\* answered like the five before it.
C6_Witness ==
    /\ pl_last.exception = "Timeout"
    /\ pl_last.service = "openai"
    /\ pl_last.nth = PipelineFailureThreshold + 1
    /\ pl_last.response = Response(502, "EXTERNAL_SERVICE_TIMEOUT")
    /\ circuit_breakers["openai"].state = "CLOSED"
    /\ circuit_breakers["openai"].failure_count = 0

\* The breaker of the dependency the handled request's path names is OPEN.
BreakerOpen ==
    /\ pl_last.service # "none"
    /\ pl_last.service \in DOMAIN circuit_breakers
    /\ circuit_breakers[pl_last.service].state = "OPEN"

\* C22 (as stated): the response to a handled exception is the one of the
\* first kind, in the order of the taxonomy, that the exception is an
\* instance of: DatabaseError 500 DATABASE_ERROR, ValidationError 400
\* VALIDATION_ERROR, PermissionDenied 403 PERMISSION_DENIED, Http404 404
\* NOT_FOUND, Timeout 502 EXTERNAL_SERVICE_TIMEOUT, ConnectionError 502
\* EXTERNAL_SERVICE_CONNECTION_ERROR, an external error with the breaker OPEN
\* 503 EXTERNAL_SERVICE_UNAVAILABLE, anything else a 500.
C22_Taxonomy ==
    pl_last.exception # "none" =>
        LET e == pl_last.exception
            r == pl_last.response
        IN  IF IsA(e, "DatabaseError") THEN r = Response(500, "DATABASE_ERROR")
            ELSE IF IsA(e, "ValidationError") THEN r = Response(400, "VALIDATION_ERROR")
            ELSE IF IsA(e, "PermissionDenied") THEN r = Response(403, "PERMISSION_DENIED")
            ELSE IF IsA(e, "Http404") THEN r = Response(404, "NOT_FOUND")
            ELSE IF IsA(e, "Timeout") THEN r = Response(502, "EXTERNAL_SERVICE_TIMEOUT")
            ELSE IF IsA(e, "ConnectionError")
                 THEN r = Response(502, "EXTERNAL_SERVICE_CONNECTION_ERROR")
            ELSE IF IsA(e, "RequestException") /\ BreakerOpen
                 THEN r = Response(503, "EXTERNAL_SERVICE_UNAVAILABLE")
            ELSE r.status = 500

\* C22 (amended): DatabaseError (OperationalError included) is answered 500,
\* with code DATABASE_ERROR when DEBUG is off and no code when it is on;
\* ValidationError 400 VALIDATION_ERROR, PermissionDenied 403
\* PERMISSION_DENIED, Http404 404 NOT_FOUND; an external error 503
\* EXTERNAL_SERVICE_UNAVAILABLE if the breaker is OPEN, else 502 with
\* EXTERNAL_SERVICE_TIMEOUT for a Timeout, EXTERNAL_SERVICE_CONNECTION_ERROR
\* for a ConnectionError and EXTERNAL_SERVICE_ERROR for any other; a cache
\* error gets no response from the mapping; anything else 500, with code
\* INTERNAL_ERROR when DEBUG is off and no code when it is on.
C22_ExceptionMapping ==
    pl_last.exception # "none" =>
        LET e == pl_last.exception
            r == pl_last.response
            external(code) == IF BreakerOpen
                              THEN r = Response(503, "EXTERNAL_SERVICE_UNAVAILABLE")
                              ELSE r = Response(502, code)
        IN  CASE e \in {"DatabaseError", "OperationalError"} ->
                    r = Response(500, IF debug THEN "none" ELSE "DATABASE_ERROR")
              [] e = "ValidationError" -> r = Response(400, "VALIDATION_ERROR")
              [] e = "PermissionDenied" -> r = Response(403, "PERMISSION_DENIED")
              [] e = "Http404" -> r = Response(404, "NOT_FOUND")
              [] e = "Timeout" -> external("EXTERNAL_SERVICE_TIMEOUT")
              [] e = "ConnectionError" -> external("EXTERNAL_SERVICE_CONNECTION_ERROR")
              [] e = "RequestException" -> external("EXTERNAL_SERVICE_ERROR")
              [] e = "RedisError" -> r = NoResponse
              [] OTHER -> r = Response(500, IF debug THEN "none" ELSE "INTERNAL_ERROR")

\* An OperationalError handled with DEBUG off: it is a DatabaseError before
\* it is anything else.
C22_Witness ==
    /\ pl_last.exception = "OperationalError"
    /\ ~debug
    /\ pl_last.response = Response(500, "DATABASE_ERROR")

-----------------------------------------------------------------------------
(* retry_on_failure *)

RECURSIVE Pow(_, _)
Pow(b, n) == IF n = 0 THEN 1 ELSE b * Pow(b, n - 1)

NoException == <<"none", 0>>

NoResult == [kind |-> "none", value |-> "none", exception |-> NoException]

\* retry_on_failure(max_retries, delay, backoff_factor, exceptions)(func)()
RtStart(max_retries, delay, backoff_factor, exceptions) ==
    /\ rt_max_retries = max_retries
    /\ rt_delay = delay
    /\ rt_backoff_factor = backoff_factor
    /\ rt_exceptions = exceptions
    /\ rt_attempt = 0
    /\ rt_pc = "loop"
    /\ rt_last_exception = NoException
    /\ rt_invocations = 0
    /\ rt_raised = <<>>
    /\ rt_slept = <<>>
    /\ rt_result = NoResult

RtInit ==
    \E max_retries \in 0..MaxRetries, delay \in 1..MaxDelay,
       backoff_factor \in 1..MaxBackoff, exceptions \in ExceptionClasses :
        RtStart(max_retries, delay, backoff_factor, exceptions)

RtParked == RtStart(0, 1, 1, "Exception")

\* for attempt in range(max_retries + 1)
InRange_extra(attempt) == attempt < rt_max_retries + 2
InRange(attempt) == attempt < rt_max_retries + 1

\* last_exception = e
Remember_first(e) == IF rt_last_exception = NoException THEN e ELSE rt_last_exception
Remember(e) == e

\* One pass of the loop body up to the sleep: func is called and returns,
\* raises an exception of the caught class, or raises another one.
rt_try ==
    /\ rt_pc = "loop"
    /\ InRange(rt_attempt)
    /\ rt_invocations' = rt_invocations + 1
    /\ \E out \in OpValues \cup OpErrors :
         IF out \in OpValues
         THEN /\ rt_result' = [NoResult EXCEPT !.kind = "returned", !.value = out]
              /\ rt_pc' = "done"
              /\ UNCHANGED <<rt_attempt, rt_last_exception, rt_raised>>
         ELSE LET e == <<out, rt_invocations + 1>>
              IN /\ rt_raised' = Append(rt_raised, e)
                 /\ IF IsInstance(out, rt_exceptions)
                    THEN /\ rt_last_exception' = Remember(e)
                         /\ rt_result' = rt_result
                         /\ IF rt_attempt < rt_max_retries
                            THEN rt_pc' = "sleep" /\ rt_attempt' = rt_attempt
                            ELSE rt_pc' = "loop" /\ rt_attempt' = rt_attempt + 1
                    ELSE /\ rt_result' = [NoResult EXCEPT !.kind = "raised", !.exception = e]
                         /\ rt_pc' = "done"
                         /\ UNCHANGED <<rt_attempt, rt_last_exception>>
    /\ UNCHANGED <<notRt, rt_max_retries, rt_delay, rt_backoff_factor, rt_exceptions, rt_slept>>

\* current_delay = delay * (backoff_factor ** attempt)
current_delay_next(attempt) == rt_delay * Pow(rt_backoff_factor, attempt + 1)
current_delay(attempt) == rt_delay * Pow(rt_backoff_factor, attempt)

\* RetryMiddleware.process_exception, line 456: the delay it sleeps for once
\* retry_count has been incremented.
process_exception_delay(retry_delay, backoff_factor, retry_count) ==
    retry_delay * Pow(backoff_factor, retry_count - 1)

\* time.sleep(current_delay), then the next pass.
rt_sleep ==
    /\ rt_pc = "sleep"
    /\ rt_slept' = Append(rt_slept, current_delay(rt_attempt))
    /\ rt_attempt' = rt_attempt + 1
    /\ rt_pc' = "loop"
    /\ UNCHANGED <<notRt, rt_max_retries, rt_delay, rt_backoff_factor, rt_exceptions,
                   rt_last_exception, rt_invocations, rt_raised, rt_result>>

\* After the loop: raise last_exception
rt_raise ==
    /\ rt_pc = "loop"
    /\ ~InRange(rt_attempt)
    /\ rt_result' = [NoResult EXCEPT !.kind = "raised", !.exception = rt_last_exception]
    /\ rt_pc' = "done"
    /\ UNCHANGED <<notRt, rt_max_retries, rt_delay, rt_backoff_factor, rt_exceptions,
                   rt_attempt, rt_last_exception, rt_invocations, rt_raised, rt_slept>>

RtNext == rt_try \/ rt_sleep \/ rt_raise


\* Every attempt of the run raised an exception of the caught class.
AllAttemptsFailed ==
    /\ rt_pc = "done"
    /\ rt_invocations = rt_max_retries + 1
    /\ \A i \in DOMAIN rt_raised : IsInstance(rt_raised[i][1], rt_exceptions)
    /\ Len(rt_raised) = rt_invocations

RetryBounded ==
    /\ rt_invocations <= rt_max_retries + 1
    /\ (rt_pc = "done" /\ rt_result.kind # "returned") =>
           /\ rt_result.kind = "raised"
           /\ rt_result.exception = rt_raised[Len(rt_raised)]

\* C7: a run of retry_on_failure terminates after at most max_retries + 1
\* invocations of the operation, and when every attempt fails it raises the
\* error of the last attempt.
C7_RetryTerminatesBounded == [](RetryBounded) /\ <>(rt_pc = "done")

C7_Witness ==
    /\ AllAttemptsFailed
    /\ rt_max_retries = 2
    /\ rt_invocations = 3
    /\ rt_result.kind = "raised"
    /\ rt_result.exception[2] = 3

\* The sum of a sequence of numbers.
RECURSIVE SeqSum(_)
SeqSum(seq) == IF seq = <<>> THEN 0 ELSE seq[1] + SeqSum(Tail(seq))

\* base_delay * backoff_factor^0 + ... + base_delay * backoff_factor^(n-1)
RECURSIVE GeometricSum(_)
GeometricSum(n) ==
    IF n = 0 THEN 0
    ELSE GeometricSum(n - 1) + rt_delay * Pow(rt_backoff_factor, n - 1)

-----------------------------------------------------------------------------
(* RetryMiddleware._should_retry *)

Methods == {"GET", "POST", "PUT", "PATCH", "DELETE", "HEAD", "OPTIONS"}

\* hasattr(exception, 'status_code') is false
NoStatus == 0

StatusCodes == {NoStatus, 400, 401, 403, 404, 422, 429, 500, 503}

\* request.method in ['GET', 'POST', 'PUT', 'PATCH']
RetryableMethods_noPatch == {"GET", "POST", "PUT"}
RetryableMethods == {"GET", "POST", "PUT", "PATCH"}

non_retryable_exceptions == {"ValidationError", "PermissionDenied", "Http404"}

non_retryable_status_codes == {400, 401, 403, 404, 422}

\* _should_retry(request, exception)
should_retry(method, exception) ==
    IF method \notin RetryableMethods THEN FALSE
    ELSE IF \E exc_type \in non_retryable_exceptions : IsA(exception.class, exc_type)
    THEN FALSE
    ELSE IF exception.status_code # NoStatus
            /\ exception.status_code \in non_retryable_status_codes
    THEN FALSE
    ELSE TRUE

SrStart(method, class, status_code) ==
    /\ sr_method = method
    /\ sr_exception = [class |-> class, status_code |-> status_code]
    /\ sr_result = [evaluated |-> FALSE, value |-> FALSE]

SrInit ==
    \E method \in Methods, class \in Exceptions, status_code \in StatusCodes :
        SrStart(method, class, status_code)

SrParked == SrStart("GET", "Exception", NoStatus)

sr_evaluate ==
    /\ ~sr_result.evaluated
    /\ sr_result' = [evaluated |-> TRUE, value |-> should_retry(sr_method, sr_exception)]
    /\ UNCHANGED <<notSr, sr_method, sr_exception>>

SrNext == sr_evaluate


\* C8: _should_retry returns true only for GET, POST, PUT or PATCH; false for
\* ValidationError, PermissionDenied and Http404 whatever the method; true
\* for every other error on such a method without a non-retryable status code.
C8_ShouldRetry ==
    sr_result.evaluated =>
        /\ sr_result.value => sr_method \in {"GET", "POST", "PUT", "PATCH"}
        /\ sr_exception.class \in {"ValidationError", "PermissionDenied", "Http404"}
               => ~sr_result.value
        /\ ( /\ sr_method \in {"GET", "POST", "PUT", "PATCH"}
             /\ sr_exception.class \notin {"ValidationError", "PermissionDenied", "Http404"}
             /\ sr_exception.status_code \notin {400, 401, 403, 404, 422} )
               => sr_result.value

C8_Witness ==
    /\ sr_result.evaluated
    /\ sr_result.value
    /\ sr_method = "PATCH"
    /\ sr_exception = [class |-> "Timeout", status_code |-> 500]

-----------------------------------------------------------------------------
(* UserSession and SessionManagementMiddleware *)

Users == {"u1", "u2"}
Anonymous == "anonymous"
Keys == {"k1", "k2"}
UserAgents == {"UA-A", "UA-B"}
Addresses == {"1.1.1.1"}
PathKinds == {"static", "chat", "page"}
Workers == {"w1", "w2"}

\* settings.SESSION_INACTIVITY_TIMEOUT: 3600 seconds, one hour
InactivityTimeout == 1

\* A row of user_sessions, with the fields the middleware reads or writes.
NoRow == [user |-> "none", session_key |-> "none", ip_address |-> "none",
          user_agent |-> "none", last_activity |-> NoTime,
          ended_at |-> NoTime, is_active |-> FALSE, page_views |-> 0,
          chat_interactions |-> 0]

\* A worker that is handling no request. us_set with us_id = 0 stands for
\* request.user_session = None; ~us_set for the attribute not being there;
\* found for the query of _get_or_create_user_session having returned a row;
\* store_error for the database having raised an error other than that of
\* the unique key; active_sessions for the count _check_concurrent_sessions
\* took.
IdleWorker == [pc |-> "idle", user |-> Anonymous, session_key |-> "none",
               user_agent |-> "none", ip_address |-> "none", path |-> "none",
               skipped |-> FALSE, via_login |-> FALSE, found |-> FALSE,
               store_error |-> FALSE, active_sessions |-> 0,
               us_set |-> FALSE, us_id |-> 0, us |-> NoRow,
               oldest_id |-> 0, status |-> 0]

\* A worker whose last request ended in an exception that left the
\* middleware; it is free for the next request.
FailedWorker == [IdleWorker EXCEPT !.pc = "failed", !.status = 500]

IdleSweep == [pc |-> "idle", pending |-> {}]

SsStart(limit) ==
    /\ user_sessions = <<>>
    /\ django_sessions = [k \in Keys |-> [status |-> "unissued", user |-> Anonymous]]
    /\ max_concurrent_sessions = limit
    /\ clock = 0
    /\ workers = [w \in Workers |-> IdleWorker]
    /\ sweep = IdleSweep
    /\ requests = 0

SsInit == \E limit \in 1..MaxLimit : SsStart(limit)

SsParked == SsStart(1)

RowIds == DOMAIN user_sessions

\* The key django gives the next session it creates: keys are never reused.
NextKey ==
    IF django_sessions["k1"].status = "unissued" THEN "k1"
    ELSE IF django_sessions["k2"].status = "unissued" THEN "k2"
    ELSE IF "k3" \in DOMAIN django_sessions /\ django_sessions["k3"].status = "unissued"
         THEN "k3"
    ELSE "none"

\* Session.objects.values_list('session_key', flat=True)
django_session_keys == {k \in DOMAIN django_sessions : django_sessions[k].status = "valid"}

Set(w, rec) == [workers EXCEPT ![w] = rec]

\* skip_paths of _should_skip_session_management: '/static/', '/media/',
\* '/health/', '/admin/jsi18n/', '/favicon.ico'. A path is modelled by the
\* prefix it starts with.
skip_paths == {"static", "media", "health", "jsi18n", "favicon"}

\* _should_skip_session_management
should_skip_session_management_assets(path) == path \in {"static", "media"}
should_skip_session_management(path) == path \in skip_paths

\* session_key = models.CharField(max_length=40, unique=True): an INSERT of a
\* key some row already has raises IntegrityError.
UniqueViolation_none(key) == FALSE
UniqueViolation(key) == \E id \in RowIds : user_sessions[id].session_key = key

\* end_session(): is_active = False, ended_at = timezone.now()
EndedStamp_none == NoTime
EndedStamp == clock

Ended(row) == [row EXCEPT !.is_active = FALSE, !.ended_at = EndedStamp]

\* save(update_fields=['is_active', 'ended_at']) of end_session(), on row id.
SaveEnded(id) == [user_sessions EXCEPT ![id] = Ended(@)]

\* The instance a worker holds in memory: the row as it was read, less the
\* timestamp of the last activity, which the code never reads from it.
Copy(row) == [row EXCEPT !.last_activity = NoTime]

\* _get_or_create_user_session, lines 140-144: the active sessions of
\* (user, session_key).
ActiveFor(user, key) ==
    {id \in RowIds : /\ user_sessions[id].user = user
                     /\ user_sessions[id].is_active
                     /\ user_sessions[id].session_key = key}

\* The worker that takes the next request: the first one that is free.
Free(w) == workers[w].pc \in {"idle", "failed"}

FirstIdle ==
    IF Free("w1") THEN "w1"
    ELSE IF Free("w2") THEN "w2"
    ELSE "none"

\* process_request up to the query of _get_or_create_user_session. The
\* request carries no session key and is anonymous, or carries the key of a
\* django session and is made by the user logged in on it.
ss_begin(w, agents, paths) ==
    /\ w = FirstIdle
    /\ requests < MaxRequests
    /\ requests' = requests + 1
    /\ \E key \in django_session_keys \cup {"none"},
          ua \in agents, ip \in Addresses, path \in paths :
         LET user == IF key = "none" THEN Anonymous ELSE django_sessions[key].user
             r == [IdleWorker EXCEPT !.user = user, !.session_key = key,
                                     !.user_agent = ua, !.ip_address = ip,
                                     !.path = path]
         IN IF should_skip_session_management(path)
            THEN workers' = Set(w, [r EXCEPT !.pc = "handler", !.skipped = TRUE])
            ELSE IF user = Anonymous
            THEN \* _handle_anonymous_session writes the cache only;
                 \* _validate_session_security returns True;
                 \* _check_concurrent_sessions fails on the anonymous user,
                 \* logs, and returns True.
                 workers' = Set(w, [r EXCEPT !.pc = "handler"])
            ELSE IF ActiveFor(user, key) # {}
            THEN \E id \in ActiveFor(user, key) :
                   workers' = Set(w, [r EXCEPT !.pc = "refresh", !.found = TRUE,
                                               !.us_id = id,
                                               !.us = Copy(user_sessions[id])])
            ELSE workers' = Set(w, [r EXCEPT !.pc = "create"])
    /\ UNCHANGED <<notSs, user_sessions, django_sessions, max_concurrent_sessions,
                   clock, sweep>>

\* Where a request goes once request.user_session is assigned: on to
\* _validate_session_security, or, when called from handle_user_login, back.
AfterSession(me) == IF me.via_login THEN "response" ELSE "security"

\* _get_or_create_user_session, lines 146-150: last_activity refreshed and saved.
ss_refresh(w) ==
    /\ workers[w].pc = "refresh"
    /\ LET me == workers[w]
       IN /\ user_sessions' = [user_sessions EXCEPT ![me.us_id].last_activity = clock]
          /\ workers' = Set(w, [me EXCEPT !.pc = AfterSession(me), !.us_set = TRUE])
    /\ UNCHANGED <<notSs, django_sessions, max_concurrent_sessions, clock, sweep, requests>>

\* _create_new_user_session: UserSession.objects.create(...); an error, of
\* the unique key or any other the database raises, is logged and None is
\* returned.
ss_create(w) ==
    /\ workers[w].pc = "create"
    /\ LET me == workers[w]
           row == [NoRow EXCEPT !.user = me.user, !.session_key = me.session_key,
                                !.ip_address = me.ip_address,
                                !.user_agent = me.user_agent,
                                !.last_activity = clock,
                                !.is_active = TRUE]
       IN \E database_error \in BOOLEAN :
          IF database_error \/ UniqueViolation(me.session_key)
          THEN /\ user_sessions' = user_sessions
               /\ workers' = Set(w, [me EXCEPT !.pc = AfterSession(me), !.us_set = TRUE,
                                               !.us_id = 0, !.us = NoRow,
                                               !.store_error = database_error])
          ELSE /\ user_sessions' = Append(user_sessions, row)
               /\ workers' = Set(w, [me EXCEPT !.pc = AfterSession(me), !.us_set = TRUE,
                                               !.us_id = Len(user_sessions) + 1,
                                               !.us = Copy(row)])
    /\ UNCHANGED <<notSs, django_sessions, max_concurrent_sessions, clock, sweep, requests>>

\* _check_session_consistency: only the user agent decides; a changed IP
\* address is logged.
check_session_consistency_ip(me) ==
    IF me.us_id = 0 THEN TRUE
    ELSE me.us.user_agent = me.user_agent /\ me.us.ip_address = me.ip_address
check_session_consistency(me) ==
    IF me.us_id = 0 THEN TRUE
    ELSE me.us.user_agent = me.user_agent

ActiveOf(user) ==
    {id \in RowIds : user_sessions[id].user = user /\ user_sessions[id].is_active}

\* _check_concurrent_sessions, line 304: active_sessions >= max_concurrent_sessions
LimitReached_gt(active_sessions) == active_sessions > max_concurrent_sessions
LimitReached(active_sessions) == active_sessions >= max_concurrent_sessions

\* _validate_session_security; on a violation
\* _create_security_violation_response; otherwise the count of
\* _check_concurrent_sessions, lines 296-304. rate_exceeded is what
\* _detect_suspicious_activity reads from the cache: request_count > 100.
ss_security(w) ==
    /\ workers[w].pc = "security"
    /\ LET me == workers[w]
           active_sessions == Cardinality(ActiveOf(me.user))
       IN \E rate_exceeded \in BOOLEAN :
            IF check_session_consistency(me) /\ ~rate_exceeded
            THEN /\ user_sessions' = user_sessions
                 /\ workers' = Set(w, [me EXCEPT
                        !.active_sessions = active_sessions,
                        !.pc = IF LimitReached(active_sessions)
                               THEN "oldest" ELSE "handler"])
            ELSE IF me.us_id = 0
            THEN \* None.end_session(): AttributeError leaves process_request
                 /\ user_sessions' = user_sessions
                 /\ workers' = Set(w, FailedWorker)
            ELSE /\ user_sessions' = SaveEnded(me.us_id)
                 /\ workers' = Set(w, [me EXCEPT !.pc = "response", !.status = 403,
                                                 !.us = Ended(me.us)])
    /\ UNCHANGED <<notSs, django_sessions, max_concurrent_sessions, clock, sweep, requests>>

\* _check_concurrent_sessions, lines 306-309: order_by('last_activity').first()
ss_oldest(w) ==
    /\ workers[w].pc = "oldest"
    /\ LET me == workers[w]
           firsts == {id \in ActiveOf(me.user) :
                         \A other \in ActiveOf(me.user) :
                             user_sessions[id].last_activity
                                 <= user_sessions[other].last_activity}
       IN IF firsts = {}
          THEN workers' = Set(w, [me EXCEPT !.pc = "handler"])
          ELSE \E id \in firsts :
                 workers' = Set(w, [me EXCEPT !.pc = "evict", !.oldest_id = id])
    /\ UNCHANGED <<notSs, user_sessions, django_sessions, max_concurrent_sessions,
                   clock, sweep, requests>>

\* _check_concurrent_sessions, line 312: oldest_session.end_session()
ss_evict(w) ==
    /\ workers[w].pc = "evict"
    /\ user_sessions' = SaveEnded(workers[w].oldest_id)
    /\ workers' = Set(w, [workers[w] EXCEPT !.pc = "handler"])
    /\ UNCHANGED <<notSs, django_sessions, max_concurrent_sessions, clock, sweep, requests>>

\* _update_session_activity: the counters of the instance in memory, saved
\* with update_fields=['page_views', 'chat_interactions'].
Counted(me) ==
    [me.us EXCEPT !.page_views = @ + 1,
                  !.chat_interactions = IF me.path = "chat" THEN @ + 1 ELSE @]

\* process_response: the table after it.
ResponseSaves_whole(me) ==
    IF ~me.skipped /\ me.user # Anonymous /\ me.us_set /\ me.us_id # 0
    THEN [user_sessions EXCEPT
             ![me.us_id] = [Counted(me) EXCEPT !.last_activity = clock]]
    ELSE user_sessions
ResponseSaves(me) ==
    IF ~me.skipped /\ me.user # Anonymous /\ me.us_set /\ me.us_id # 0
    THEN [user_sessions EXCEPT
             ![me.us_id].page_views = Counted(me).page_views,
             ![me.us_id].chat_interactions = Counted(me).chat_interactions]
    ELSE user_sessions

\* process_response: the worker after it. str(request.user_session.session_key)
\* raises AttributeError when request.user_session is None.
ResponseEnds(me) ==
    IF ~me.skipped /\ me.us_set /\ me.us_id = 0 THEN FailedWorker ELSE IdleWorker

\* An ordinary view, then process_response.
ss_handler(w) ==
    /\ workers[w].pc = "handler"
    /\ LET me == [workers[w] EXCEPT !.status = 200]
       IN /\ user_sessions' = ResponseSaves(me)
          /\ workers' = Set(w, ResponseEnds(me))
    /\ UNCHANGED <<notSs, django_sessions, max_concurrent_sessions, clock, sweep, requests>>

\* A view that logs a user in, which none of the exempt paths (assets,
\* health, favicon) is: django gives the session a new key, then
\* handle_user_login runs _handle_authenticated_session when the request has
\* no user_session yet; no row has the new key, so the query finds none.
ss_login(w, users) ==
    /\ workers[w].pc = "handler"
    /\ workers[w].user = Anonymous
    /\ ~workers[w].skipped
    /\ NextKey # "none"
    /\ \E user \in users :
         /\ django_sessions' = [django_sessions EXCEPT
                                   ![NextKey] = [status |-> "valid", user |-> user]]
         /\ workers' = Set(w, [workers[w] EXCEPT !.user = user, !.session_key = NextKey,
                                  !.status = 200, !.via_login = TRUE, !.pc = "create"])
    /\ UNCHANGED <<notSs, user_sessions, max_concurrent_sessions, clock, sweep, requests>>

\* A view that logs the user out: handle_user_logout ends
\* request.user_session (without one, the error is logged), django flushes
\* the session; then process_response, for a user now anonymous.
ss_logout(w) ==
    /\ workers[w].pc = "handler"
    /\ workers[w].user # Anonymous
    /\ ~workers[w].skipped
    /\ LET me == workers[w]
       IN /\ user_sessions' = IF me.us_set /\ me.us_id # 0
                              THEN SaveEnded(me.us_id) ELSE user_sessions
          /\ workers' = Set(w, ResponseEnds(me))
          /\ django_sessions' = [django_sessions EXCEPT
                                    ![me.session_key] = [status |-> "gone", user |-> Anonymous]]
    /\ UNCHANGED <<notSs, max_concurrent_sessions, clock, sweep, requests>>

\* process_response, for a response made by process_request or after a login.
ss_response(w) ==
    /\ workers[w].pc = "response"
    /\ user_sessions' = ResponseSaves(workers[w])
    /\ workers' = Set(w, ResponseEnds(workers[w]))
    /\ UNCHANGED <<notSs, django_sessions, max_concurrent_sessions, clock, sweep, requests>>

\* A django session expires or is cleared.
django_session_expired ==
    /\ \E key \in django_session_keys :
         django_sessions' = [django_sessions EXCEPT
                                ![key] = [status |-> "gone", user |-> Anonymous]]
    /\ UNCHANGED <<notSs, user_sessions, max_concurrent_sessions, clock, workers, sweep,
                   requests>>

\* _cleanup_inactive_sessions, lines 415-422: the sessions idle for too long.
InactiveSessions_all == {id \in RowIds : user_sessions[id].is_active}
InactiveSessions ==
    {id \in RowIds : /\ user_sessions[id].is_active
                     /\ user_sessions[id].last_activity < clock - InactivityTimeout}

\* The cleanup run once the inactive sessions are dealt with, given the
\* table as it then is: on to _cleanup_orphaned_sessions, lines 439-443, for
\* the active sessions whose key is no django session's, or over.
SweepOrphaned(table) ==
    LET orphaned == {id \in DOMAIN table :
                        /\ table[id].is_active
                        /\ table[id].session_key \notin django_session_keys}
    IN IF orphaned = {} THEN IdleSweep ELSE [pc |-> "orphaned", pending |-> orphaned]

\* _run_session_cleanup up to the first end_session(): the queries.
sweep_start ==
    /\ sweep.pc = "idle"
    /\ sweep' = IF InactiveSessions # {}
                THEN [pc |-> "inactive", pending |-> InactiveSessions]
                ELSE SweepOrphaned(user_sessions)
    /\ UNCHANGED <<notSs, user_sessions, django_sessions, max_concurrent_sessions,
                   clock, workers, requests>>

\* session.end_session() inside either loop, and after the last one of a
\* loop what follows it.
sweep_end ==
    /\ sweep.pc \in {"inactive", "orphaned"}
    /\ \E id \in sweep.pending :
         /\ user_sessions' = SaveEnded(id)
         /\ sweep' = IF sweep.pending # {id}
                     THEN [sweep EXCEPT !.pending = @ \ {id}]
                     ELSE IF sweep.pc = "inactive"
                     THEN SweepOrphaned(SaveEnded(id))
                     ELSE IdleSweep
    /\ UNCHANGED <<notSs, django_sessions, max_concurrent_sessions, clock, workers, requests>>

\* timezone.now() advances by an hour; a request, and the cleanup one runs,
\* is short against that, so none is under way.
ss_tick ==
    /\ clock < MaxClock
    /\ \A w \in Workers : Free(w)
    /\ sweep.pc = "idle"
    /\ clock' = clock + 1
    /\ UNCHANGED <<notSs, user_sessions, django_sessions, max_concurrent_sessions,
                   workers, sweep, requests>>

\* The steps of the session layer, for the given workers and request inputs.
SsNextWith(pool, users, agents, paths) ==
    \/ \E w \in pool : ss_begin(w, agents, paths)
    \/ \E w \in pool : ss_refresh(w)
    \/ \E w \in pool : ss_create(w)
    \/ \E w \in pool : ss_security(w)
    \/ \E w \in pool : ss_oldest(w)
    \/ \E w \in pool : ss_evict(w)
    \/ \E w \in pool : ss_handler(w)
    \/ \E w \in pool : ss_login(w, users)
    \/ \E w \in pool : ss_logout(w)
    \/ \E w \in pool : ss_response(w)
    \/ django_session_expired
    \/ sweep_start
    \/ sweep_end
    \/ ss_tick

\* Requests handled concurrently.
SsNext == SsNextWith(Workers, {"u1"}, {"UA-A"}, {"chat"})

\* Requests handled one at a time, by one worker; the cleanup, which runs
\* inside a request of its own, is not under way during another.
serial_begin ==
    /\ sweep.pc = "idle"
    /\ ss_begin("w1", UserAgents, {"static", "chat"})

serial_sweep_start ==
    /\ Free("w1")
    /\ sweep_start

SsNextSerial ==
    \/ serial_begin
    \/ ss_refresh("w1")
    \/ ss_create("w1")
    \/ ss_security("w1")
    \/ ss_oldest("w1")
    \/ ss_evict("w1")
    \/ ss_handler("w1")
    \/ ss_login("w1", Users)
    \/ ss_logout("w1")
    \/ ss_response("w1")
    \/ django_session_expired
    \/ serial_sweep_start
    \/ sweep_end
    \/ ss_tick

-----------------------------------------------------------------------------
(* The session layer for a user who logs in on several devices, requests
   handled one at a time *)

\* The table and the django sessions after one login of u1, the limit not
\* exceeded; django has two more keys to give.
GateInit ==
    /\ user_sessions = << [NoRow EXCEPT !.user = "u1", !.session_key = "k1",
                                        !.ip_address = "1.1.1.1", !.user_agent = "UA-A",
                                        !.last_activity = 0, !.is_active = TRUE,
                                        !.page_views = 1, !.chat_interactions = 1] >>
    /\ django_sessions = [k \in Keys \cup {"k3"} |->
                             IF k = "k1" THEN [status |-> "valid", user |-> "u1"]
                             ELSE [status |-> "unissued", user |-> Anonymous]]
    /\ max_concurrent_sessions \in 1..MaxLimit
    /\ clock = 0
    /\ workers = [w \in Workers |-> IdleWorker]
    /\ sweep = IdleSweep
    /\ requests = 0

gate_begin ==
    /\ sweep.pc = "idle"
    /\ ss_begin("w1", {"UA-A"}, {"chat"})

SsNextGate ==
    \/ gate_begin
    \/ ss_refresh("w1")
    \/ ss_create("w1")
    \/ ss_security("w1")
    \/ ss_oldest("w1")
    \/ ss_evict("w1")
    \/ ss_handler("w1")
    \/ ss_login("w1", {"u1"})
    \/ ss_logout("w1")
    \/ ss_response("w1")
    \/ django_session_expired
    \/ serial_sweep_start
    \/ sweep_end
    \/ ss_tick

-----------------------------------------------------------------------------
(* _check_session_consistency, on any stored session and any request *)

\* The addresses a client may come from.
ClientAddresses == {"1.1.1.1", "2.2.2.2", "3.3.3.3"}

NotEvaluated == [evaluated |-> FALSE, value |-> FALSE]

ScStart(present, stored_agent, stored_address, agent, address) ==
    /\ sc_stored = [present |-> present, user_agent |-> stored_agent,
                    ip_address |-> stored_address]
    /\ sc_incoming = [user_agent |-> agent, ip_address |-> address]
    /\ sc_result = NotEvaluated

ScInit ==
    \E present \in BOOLEAN, stored_agent \in UserAgents, agent \in UserAgents,
       stored_address \in ClientAddresses, address \in ClientAddresses :
        ScStart(present, stored_agent, stored_address, agent, address)

ScParked == ScStart(FALSE, "UA-A", "1.1.1.1", "UA-A", "1.1.1.1")

\* The request as _check_session_consistency sees it: request.user_session
\* (getattr(..., None)), HTTP_USER_AGENT and the client's address.
ScRequest ==
    [IdleWorker EXCEPT !.us_set = TRUE,
                       !.us_id = IF sc_stored.present THEN 1 ELSE 0,
                       !.us = IF sc_stored.present
                              THEN [NoRow EXCEPT !.user_agent = sc_stored.user_agent,
                                                 !.ip_address = sc_stored.ip_address,
                                                 !.is_active = TRUE]
                              ELSE NoRow,
                       !.user_agent = sc_incoming.user_agent,
                       !.ip_address = sc_incoming.ip_address]

sc_evaluate ==
    /\ ~sc_result.evaluated
    /\ sc_result' = [evaluated |-> TRUE, value |-> check_session_consistency(ScRequest)]
    /\ UNCHANGED <<notSc, sc_stored, sc_incoming>>

ScNext == sc_evaluate

\* C15: with a stored session, the consistency check fails when the stored
\* user agent differs from the request's, whatever the two addresses, and
\* passes when the user agents are the same, also when the addresses differ.
C15_ConsistencyByUserAgent ==
    (sc_result.evaluated /\ sc_stored.present) =>
        (sc_result.value <=> sc_stored.user_agent = sc_incoming.user_agent)

\* The check passed a request of the stored user agent from another address.
C15_Witness ==
    /\ sc_result.evaluated
    /\ sc_stored.present
    /\ sc_stored.user_agent = "UA-A" /\ sc_incoming.user_agent = "UA-A"
    /\ sc_stored.ip_address = "1.1.1.1" /\ sc_incoming.ip_address = "2.2.2.2"
    /\ sc_result.value

-----------------------------------------------------------------------------
(* _detect_suspicious_activity *)

\* if request_count > 100
RateLimit == 100

\* The cache keys: request_rate:<client ip>:<user id>
RateKeys == {<<"1.1.1.1", "u1">>, <<"2.2.2.2", "u1">>}

NoneChecked == [key |-> <<"none", "none">>, before |-> 0, flagged |-> FALSE, after |-> 0]

RdStart ==
    /\ request_rate = [k \in RateKeys |-> 0]
    /\ rd_last = NoneChecked

RdInit == RdStart

RdParked == RdStart

\* line 279: request_count > 100
Suspicious_ge(request_count) == request_count >= RateLimit
Suspicious(request_count) == request_count > RateLimit

\* line 284: cache.set(cache_key, request_count + 1, 60), not reached when
\* the request is flagged
Incremented(request_count) ==
    IF Suspicious(request_count) THEN request_count ELSE request_count + 1

\* _detect_suspicious_activity(request), for the request's (ip, user).
detect_suspicious_activity(key) ==
    /\ request_rate' = [request_rate EXCEPT ![key] = Incremented(@)]
    /\ rd_last' = [key |-> key, before |-> request_rate[key],
                   flagged |-> Suspicious(request_rate[key]),
                   after |-> request_rate'[key]]
    /\ UNCHANGED notRd

\* The cache drops an entry 60 seconds after it was last set.
rate_expired(key) ==
    /\ request_rate[key] > 0
    /\ request_rate' = [request_rate EXCEPT ![key] = 0]
    /\ UNCHANGED <<notRd, rd_last>>

RdNext ==
    \/ \E key \in RateKeys : detect_suspicious_activity(key)
    \/ \E key \in RateKeys : rate_expired(key)

\* C16: a request is flagged exactly when the count of its (ip, user) was
\* above 100 before the check; a request not flagged leaves the count one
\* higher, a flagged one leaves it as it was.
C16_RateAnomaly ==
    rd_last # NoneChecked =>
        /\ rd_last.flagged <=> rd_last.before > RateLimit
        /\ rd_last.after = IF rd_last.flagged THEN rd_last.before
                           ELSE rd_last.before + 1

\* The 102nd request of a minute is flagged, and not counted.
C16_Witness ==
    /\ rd_last.flagged
    /\ rd_last.before = RateLimit + 1
    /\ rd_last.after = RateLimit + 1
    /\ request_rate[rd_last.key] = RateLimit + 1

-----------------------------------------------------------------------------
(* UserSession.end_session, called on any record at any time *)

\* A record as objects.create leaves it.
NewRow(user, key, ua) ==
    [NoRow EXCEPT !.user = user, !.session_key = key, !.ip_address = "1.1.1.1",
                  !.user_agent = ua, !.last_activity = 0, !.is_active = TRUE]

\* A table of one or two records just created, their keys distinct.
EsInit ==
    /\ \E table \in
            {<<NewRow(u, "k1", a)>> : u \in Users, a \in UserAgents}
            \cup {<<NewRow(u, "k1", a), NewRow(v, "k2", b)>> :
                      u \in Users, a \in UserAgents, v \in Users, b \in UserAgents} :
          user_sessions = table
    /\ django_sessions = [k \in Keys |-> [status |-> "unissued", user |-> Anonymous]]
    /\ max_concurrent_sessions = 1
    /\ clock = 0
    /\ workers = [w \in Workers |-> IdleWorker]
    /\ sweep = IdleSweep
    /\ requests = 0

\* session.end_session(), by whichever caller holds the instance.
end_session(id) ==
    /\ user_sessions' = SaveEnded(id)
    /\ UNCHANGED <<notSs, django_sessions, max_concurrent_sessions, clock, workers,
                   sweep, requests>>

EsNext ==
    \/ \E id \in RowIds : end_session(id)
    \/ ss_tick

\* C12: ending a session that is already ended changes nothing: it stays
\* ended and keeps the ended_at of its first ending.
C12_EndIdempotent ==
    [][\A id \in RowIds :
         ~user_sessions[id].is_active =>
            /\ ~user_sessions'[id].is_active
            /\ user_sessions'[id].ended_at = user_sessions[id].ended_at]_vars

-----------------------------------------------------------------------------
(* Claims about the session records *)

\* C9: every session record has ended_at set exactly when it is not active,
\* whatever creation, activity updates, logout, security termination,
\* eviction and the two cleanup sweeps have done to the table.
C9_EndedIffInactive ==
    \A id \in RowIds :
        (user_sessions[id].ended_at # NoTime) <=> ~user_sessions[id].is_active

\* An ended record, inactive and stamped, beside a record still active whose
\* activity counters a response has saved.
C9_Witness ==
    \E id, other \in RowIds :
        /\ ~user_sessions[id].is_active
        /\ user_sessions[id].ended_at # NoTime
        /\ user_sessions[other].is_active
        /\ user_sessions[other].ended_at = NoTime
        /\ user_sessions[other].page_views > 0

\* C10: no two active session records have the same user and the same
\* session key, also when two requests of one (user, key) are resolved at the
\* same time and both find no active session.
C10_OneActivePerToken ==
    \A id, other \in RowIds :
        (/\ id # other
         /\ user_sessions[id].is_active
         /\ user_sessions[other].is_active
         /\ user_sessions[id].user = user_sessions[other].user)
            => user_sessions[id].session_key # user_sessions[other].session_key

\* Two requests of one (user, key) both found no active session; one has
\* inserted its record, the other, refused, carries none.
C10_Witness ==
    \E w, v \in Workers :
        /\ w # v
        /\ workers[w].user # Anonymous
        /\ workers[w].user = workers[v].user
        /\ workers[w].session_key = workers[v].session_key
        /\ ~workers[w].found /\ ~workers[w].via_login
        /\ ~workers[v].found /\ ~workers[v].via_login
        /\ workers[w].us_set /\ workers[w].us_id # 0
        /\ user_sessions[workers[w].us_id].is_active
        /\ user_sessions[workers[w].us_id].session_key = workers[w].session_key
        /\ workers[v].us_set /\ workers[v].us_id = 0
        /\ workers[v].pc = "security"
        /\ workers[w].pc = "security"

\* The step by which worker w leaves _get_or_create_user_session.
Resolved(w) ==
    /\ workers[w].pc \in {"create", "refresh"}
    /\ workers'[w].pc \notin {"create", "refresh"}
    /\ ~workers'[w].via_login

\* C11: a resolution that found no active session of (user, key), the
\* database raising no error of its own, inserts one record, active, with
\* both counters at zero, and returns it; a resolution that found one
\* returns it with last_activity refreshed and inserts nothing.
C11_ResolveOrCreate ==
    [][\A w \in Workers :
         (Resolved(w) /\ ~workers'[w].store_error) =>
            IF workers[w].found
            THEN /\ user_sessions' = [user_sessions EXCEPT
                                         ![workers[w].us_id].last_activity = clock]
                 /\ workers'[w].us_id = workers[w].us_id
            ELSE /\ Len(user_sessions') = Len(user_sessions) + 1
                 /\ workers'[w].us_id = Len(user_sessions')
                 /\ LET row == user_sessions'[Len(user_sessions')]
                    IN /\ row.user = workers[w].user
                       /\ row.session_key = workers[w].session_key
                       /\ row.is_active
                       /\ row.page_views = 0
                       /\ row.chat_interactions = 0]_vars

\* A request of a key whose record was ended found no active session, the
\* database raised nothing of its own, and the request carries no session.
C11_Witness ==
    \E w \in Workers :
        /\ workers[w].pc = "security"
        /\ ~workers[w].found
        /\ ~workers[w].store_error
        /\ workers[w].us_set
        /\ workers[w].us_id = 0
        /\ \E id \in RowIds :
             /\ user_sessions[id].session_key = workers[w].session_key
             /\ user_sessions[id].user = workers[w].user
             /\ ~user_sessions[id].is_active

\* Worker w is past _check_concurrent_sessions, which ran for a user, and
\* at the door of the view.
GateDone(w) ==
    /\ workers[w].pc = "handler"
    /\ workers[w].user # Anonymous
    /\ ~workers[w].skipped
    /\ ~workers[w].via_login

\* C13: the concurrency gate, having counted the user's active sessions,
\* has ended exactly one of them when the count was at the limit or above,
\* the one of oldest last_activity, and none when it was below; either way
\* the request goes on to the view, with no 429.
C13_EnforceConcurrencyLimit ==
    \A w \in Workers :
        GateDone(w) =>
            LET me == workers[w]
                left == Cardinality(ActiveOf(me.user))
            IN /\ me.status # 429
               /\ IF me.active_sessions >= max_concurrent_sessions
                  THEN /\ me.oldest_id \in RowIds
                       /\ user_sessions[me.oldest_id].user = me.user
                       /\ ~user_sessions[me.oldest_id].is_active
                       /\ user_sessions[me.oldest_id].ended_at = clock
                       /\ left = me.active_sessions - 1
                       /\ \A id \in ActiveOf(me.user) :
                              user_sessions[me.oldest_id].last_activity
                                  <= user_sessions[id].last_activity
                  ELSE /\ me.oldest_id = 0
                       /\ left = me.active_sessions

\* The gate has ended the older of a user's two active sessions, and the
\* younger is still active.
C13_Witness ==
    \E w \in Workers :
        /\ GateDone(w)
        /\ workers[w].active_sessions = 2
        /\ max_concurrent_sessions = 2
        /\ workers[w].oldest_id # 0
        /\ \E id \in ActiveOf(workers[w].user) :
               user_sessions[workers[w].oldest_id].last_activity
                   < user_sessions[id].last_activity

\* C14: a gate that counted limit + 1 active sessions of the user has ended
\* the oldest, ended_at set, and leaves at most limit of them; and with
\* requests handled one at a time, from a user within the limit, the user
\* has at most limit active sessions after the gate of every request.
C14_GateKeepsLimit ==
    \A w \in Workers :
        GateDone(w) =>
            LET me == workers[w]
            IN /\ Cardinality(ActiveOf(me.user)) <= max_concurrent_sessions
               /\ me.active_sessions = max_concurrent_sessions + 1 =>
                     /\ me.oldest_id \in RowIds
                     /\ ~user_sessions[me.oldest_id].is_active
                     /\ user_sessions[me.oldest_id].ended_at # NoTime
                     /\ \A id \in ActiveOf(me.user) :
                            user_sessions[me.oldest_id].last_activity
                                <= user_sessions[id].last_activity

\* After three logins and no request in between, the gate of the next
\* request counted three active sessions against a limit of one and ended
\* one of them: two are left.
C14_Witness ==
    \E w \in Workers :
        /\ GateDone(w)
        /\ max_concurrent_sessions = 1
        /\ workers[w].active_sessions = 3
        /\ workers[w].oldest_id # 0
        /\ ~user_sessions[workers[w].oldest_id].is_active
        /\ Cardinality(ActiveOf(workers[w].user)) = 2

\* The step of worker w in which _validate_session_security returned False:
\* the request leaves the security check and does not go on to the gate.
ValidationFailed(w) ==
    /\ workers[w].pc = "security"
    /\ workers'[w].pc \notin {"security", "oldest", "handler"}

\* C17: when the security validation of a request fails, the database
\* having raised no error of its own, the request's session is ended, ended_at set, the answer is a 403, and the request
\* stops there: the gate has counted nothing and the view is not reached.
C17_SecurityViolationStops ==
    [][\A w \in Workers :
         /\ (ValidationFailed(w) /\ ~workers[w].store_error) =>
               /\ workers'[w].pc = "response"
               /\ workers'[w].status = 403
               /\ workers'[w].active_sessions = 0
               /\ workers'[w].oldest_id = 0
               /\ workers[w].us_id \in RowIds
               /\ ~user_sessions'[workers[w].us_id].is_active
               /\ user_sessions'[workers[w].us_id].ended_at # NoTime
         /\ (workers[w].pc = "response" /\ workers[w].status = 403) =>
               workers'[w].pc \in {"response", "idle"}]_vars

\* A request answered 403, its session ended by it.
C17_Witness ==
    \E w \in Workers :
        /\ workers[w].pc = "response"
        /\ workers[w].status = 403
        /\ workers[w].us_id \in RowIds
        /\ ~user_sessions[workers[w].us_id].is_active
        /\ user_sessions[workers[w].us_id].ended_at = clock

\* C18: a request during whose session resolution the database raised an
\* error is not made to fail by the session layer: no step of it ends in an
\* exception leaving the middleware, it is not answered 403, and once at the
\* view its response is returned.
C18_FailOpen ==
    [][\A w \in Workers :
         workers[w].store_error =>
            /\ workers'[w].pc # "failed"
            /\ workers'[w].status # 403
            /\ workers[w].pc \in {"handler", "response"} =>
                  workers'[w].pc \in {"handler", "response", "idle"}]_vars

\* A request whose session could not be stored has passed the security check
\* and the gate and is at the view, request.user_session being None.
C18_Witness ==
    \E w \in Workers :
        /\ workers[w].store_error
        /\ workers[w].pc = "handler"
        /\ ~workers[w].via_login
        /\ workers[w].us_set
        /\ workers[w].us_id = 0

\* Row id is active and due to be ended by the cleanup: its last activity is
\* more than the timeout ago, or no django session has its key.
Due(table, id) ==
    /\ table[id].is_active
    /\ \/ table[id].last_activity < clock - InactivityTimeout
       \/ django_sessions[table[id].session_key].status # "valid"

\* C26: a step of the cleanup run changes is_active and ended_at only of a
\* session that was active and either idle for longer than the timeout or
\* without a django session, and ends it (is_active false, ended_at now);
\* when the run finishes, no active session idle for longer than the timeout
\* is left, and no active session that had no django session when the run
\* looked for them.
C26_SweepEndsIdleAndOrphaned ==
    [][(sweep.pc # "idle" \/ sweep'.pc # "idle") =>
          /\ DOMAIN user_sessions' = DOMAIN user_sessions
          /\ \A id \in RowIds :
                \/ /\ user_sessions'[id].is_active = user_sessions[id].is_active
                   /\ user_sessions'[id].ended_at = user_sessions[id].ended_at
                \/ /\ Due(user_sessions, id)
                   /\ ~user_sessions'[id].is_active
                   /\ user_sessions'[id].ended_at = clock
          /\ (sweep.pc = "idle" /\ sweep'.pc = "orphaned") =>
                \A id \in RowIds :
                    Due(user_sessions, id) => id \in sweep'.pending
          /\ (sweep.pc # "idle" /\ sweep'.pc = "idle") =>
                \A id \in RowIds :
                    user_sessions'[id].is_active =>
                        /\ ~(user_sessions'[id].last_activity
                                < clock - InactivityTimeout)
                        /\ Due(user_sessions', id) => id \notin sweep.pending
      ]_vars

\* The cleanup has ended two sessions idle for too long whose django sessions
\* are still there, and is over.
C26_Witness ==
    /\ sweep.pc = "idle"
    /\ \E id, other \in RowIds :
         /\ id # other
         /\ \A r \in {id, other} :
              /\ ~user_sessions[r].is_active
              /\ user_sessions[r].ended_at = clock
              /\ user_sessions[r].last_activity < clock - InactivityTimeout
              /\ django_sessions[user_sessions[r].session_key].status = "valid"

\* C38: ended is absorbing: a record that is not active is not active after
\* any step (resolve-or-create, refresh of last_activity, activity recording,
\* eviction, sweep, login, logout), also when the step is taken by a request
\* that holds a copy of the record read while it was active.
C38_EndedIsAbsorbing ==
    [][\A id \in RowIds :
          ~user_sessions[id].is_active =>
              /\ id \in DOMAIN user_sessions'
              /\ ~user_sessions'[id].is_active]_vars

\* A request past resolving its session holds a copy read while the record
\* was active; the record has been ended since, by another request, and the
\* request is about to record its activity on it.
C38_Witness ==
    \E w \in Workers :
        /\ workers[w].pc = "handler"
        /\ workers[w].us_set
        /\ workers[w].us_id \in RowIds
        /\ workers[w].us.is_active
        /\ ~user_sessions[workers[w].us_id].is_active
        /\ user_sessions[workers[w].us_id].page_views > 0

\* Worker w, handling the request of a logged-in user, is past
\* process_request without a response made by it: the view is next.
LetThrough(w) ==
    /\ workers[w].pc = "handler"
    /\ ~workers[w].skipped
    /\ workers[w].user # Anonymous
    /\ workers[w].us_set
    /\ workers[w].us_id # 0

\* C39: the concurrency gate never ends the session resolved or created for
\* the request it runs in: whatever the limit (>= 1), when process_request
\* lets the request of a logged-in user through, the request's own session
\* is still active.
C39_GateSparesOwnSession ==
    LetThrough("w1") => user_sessions[workers["w1"].us_id].is_active

\* The request's own session, the user's only one, counted against a limit
\* of one and ended by the gate.
C39_Witness ==
    /\ LetThrough("w1")
    /\ max_concurrent_sessions = 1
    /\ workers["w1"].active_sessions = 1
    /\ workers["w1"].oldest_id = workers["w1"].us_id
    /\ ~user_sessions[workers["w1"].us_id].is_active
    /\ user_sessions[workers["w1"].us_id].ended_at = clock

\* Worker w processes, in this step, the response of a request whose user
\* is logged in and whose session is the record us_id; the view was not the
\* logout, which flushes the django session.
RecordsActivity(w) ==
    /\ workers[w].pc \in {"handler", "response"}
    /\ workers'[w].pc \in {"idle", "failed"}
    /\ ~workers[w].skipped
    /\ workers[w].user # Anonymous
    /\ workers[w].us_set
    /\ workers[w].us_id # 0
    /\ django_sessions[workers[w].session_key].status = "valid"
    /\ django_sessions' = django_sessions

\* C40: activity recording loses no update: every response processed for a
\* session adds one to its page-view counter, and one to its
\* chat-interaction counter if the path is a chat path, whatever the other
\* requests resolved to the same session have recorded meanwhile; so the
\* counters equal the numbers of responses processed.
C40_NoLostActivity ==
    [][\A w \in Workers :
          RecordsActivity(w) =>
              LET id == workers[w].us_id
              IN /\ user_sessions'[id].page_views = user_sessions[id].page_views + 1
                 /\ user_sessions'[id].chat_interactions =
                        user_sessions[id].chat_interactions
                            + (IF workers[w].path = "chat" THEN 1 ELSE 0)]_vars

\* Two requests were resolved to the same session; one has recorded its
\* activity, the other is about to, from the counters it read before.
C40_Witness ==
    \E w \in Workers :
        /\ workers[w].pc = "handler"
        /\ ~workers[w].skipped
        /\ workers[w].user # Anonymous
        /\ workers[w].us_set
        /\ workers[w].us_id \in RowIds
        /\ user_sessions[workers[w].us_id].is_active
        /\ workers[w].us.page_views < user_sessions[workers[w].us_id].page_views

-----------------------------------------------------------------------------
(* Claims about the CircuitBreaker under concurrent calls (SpecConcurrent) *)

\* The callers that found the breaker OPEN with the timeout elapsed, or
\* HALF_OPEN, and are past the check of call().
TrialCallers ==
    {t \in Callers : /\ cpc[t] # "idle"
                     /\ cb_call[t].startState \in {"OPEN", "HALF_OPEN"}}

\* C27: while the breaker is HALF_OPEN at most one of the callers that came
\* after the recovery timeout is let through to the wrapped operation.
C27_OneTrialCall ==
    state = "HALF_OPEN" => Cardinality(TrialCallers) <= 1

\* Two callers came after the recovery timeout, one found the breaker OPEN
\* and the other HALF_OPEN, and the first is not done yet.
C27_Witness ==
    /\ state = "HALF_OPEN"
    /\ \E t, u \in Callers :
         /\ t # u
         /\ cb_call[t].startState = "OPEN" /\ cpc[t] # "idle"
         /\ cb_call[u].made /\ cb_call[u].startState = "HALF_OPEN"

\* Every caller has made a call that began before any failure was recorded,
\* failed with an error the breaker monitors, and is over.
AllFailedTogether ==
    \A t \in Callers :
        /\ cb_call[t].made
        /\ cpc[t] = "idle"
        /\ cb_call[t].startStamp = NoTime
        /\ cb_call[t].countBefore = 0
        /\ cb_call[t].outcome \in OpErrors
        /\ IsInstance(cb_call[t].outcome, expected_exception)

\* C28: when all callers fail at the same time, with no failure recorded and
\* no call succeeding meanwhile, no increment is lost - failure_count is the
\* number of callers - and if that reaches failure_threshold the breaker is
\* OPEN.
C28_NoLostIncrement ==
    AllFailedTogether =>
        /\ failure_count = Cardinality(Callers)
        /\ Cardinality(Callers) >= failure_threshold => state = "OPEN"

\* All callers have failed at the same time, against a threshold they reach.
C28_Witness ==
    /\ AllFailedTogether
    /\ Cardinality(Callers) >= failure_threshold

-----------------------------------------------------------------------------
(* Claims about the CircuitBreaker, calls made one at a time (Spec) *)

\* Caller t has made a call and it has completed.
Completed(t) == cpc[t] = "idle" /\ cb_call[t].made

\* The call of t completed by raising an error the breaker monitors.
FailedCall(t) ==
    /\ Completed(t)
    /\ cb_call[t].result = "raised"
    /\ IsInstance(cb_call[t].value, expected_exception)

\* C1: after failure_threshold consecutive failing calls (no successful call
\* in between) starting from CLOSED with failure_count 0, the state is OPEN.
C1_OpensAtThreshold ==
    \A t \in SerialCallers :
        (FailedCall(t) /\ streak >= failure_threshold) => state = "OPEN"

C1_Witness ==
    \E t \in SerialCallers :
        /\ FailedCall(t)
        /\ failure_threshold >= 2
        /\ streak = failure_threshold
        /\ cb_call[t].startState = "CLOSED"
        /\ state = "OPEN"

\* C2: a call made while the breaker is OPEN and now - last_failure_time is
\* not greater than recovery_timeout fails with the circuit-open error and
\* the wrapped operation is not invoked.
C2_OpenRejects ==
    \A t \in SerialCallers :
        ( /\ cb_call[t].made
          /\ cb_call[t].startState = "OPEN"
          /\ cb_call[t].startTime - cb_call[t].startStamp <= recovery_timeout )
        => /\ cpc[t] = "idle"
           /\ cb_call[t].result = "circuit_open"
           /\ cb_call[t].invoked = 0

C2_Witness ==
    \E t \in SerialCallers :
        /\ Completed(t)
        /\ cb_call[t].startState = "OPEN"
        /\ cb_call[t].startTime - cb_call[t].startStamp = recovery_timeout
        /\ cb_call[t].result = "circuit_open"

\* C3: a call made on an OPEN breaker more than recovery_timeout after
\* last_failure_time moves the breaker to HALF_OPEN before the attempt and
\* invokes the wrapped operation exactly once.
C3_TrialAfterTimeout ==
    \A t \in SerialCallers :
        ( /\ cb_call[t].made
          /\ cb_call[t].startState = "OPEN"
          /\ cb_call[t].startTime - cb_call[t].startStamp > recovery_timeout )
        => /\ cpc[t] = "invoke" => (state = "HALF_OPEN" /\ cb_call[t].invoked = 0)
           /\ cpc[t] # "invoke" =>
                  (cb_call[t].invoked = 1 /\ cb_call[t].stateAtInvoke = "HALF_OPEN")

C3_Witness ==
    \E t \in SerialCallers :
        /\ Completed(t)
        /\ cb_call[t].startState = "OPEN"
        /\ cb_call[t].startTime - cb_call[t].startStamp = recovery_timeout + 1
        /\ cb_call[t].invoked = 1
        /\ cb_call[t].stateAtInvoke = "HALF_OPEN"

\* C4: when the trial call made in HALF_OPEN succeeds, the breaker ends in
\* CLOSED with failure_count 0 and the operation's result is returned.
C4_TrialSuccessCloses ==
    \A t \in SerialCallers :
        ( /\ Completed(t)
          /\ cb_call[t].stateAtInvoke = "HALF_OPEN"
          /\ cb_call[t].outcome \in OpValues )
        => /\ state = "CLOSED"
           /\ failure_count = 0
           /\ cb_call[t].result = "returned"
           /\ cb_call[t].value = cb_call[t].outcome

C4_Witness ==
    \E t \in SerialCallers :
        /\ Completed(t)
        /\ cb_call[t].stateAtInvoke = "HALF_OPEN"
        /\ cb_call[t].outcome \in OpValues
        /\ cb_call[t].countBefore >= 2
        /\ state = "CLOSED"
        /\ failure_count = 0

\* C5: when the trial call made in HALF_OPEN fails, the breaker returns to
\* OPEN, failure_count is one more than before the call, last_failure_time
\* is the time of this failure, and the operation's own error is propagated.
C5_TrialFailureReopens ==
    \A t \in SerialCallers :
        ( /\ Completed(t)
          /\ cb_call[t].stateAtInvoke = "HALF_OPEN"
          /\ cb_call[t].outcome \in OpErrors
          /\ IsInstance(cb_call[t].outcome, expected_exception) )
        => /\ state = "OPEN"
           /\ failure_count = cb_call[t].countBefore + 1
           /\ last_failure_time = cb_call[t].endTime
           /\ cb_call[t].result = "raised"
           /\ cb_call[t].value = cb_call[t].outcome

C5_Witness ==
    \E t \in SerialCallers :
        /\ Completed(t)
        /\ cb_call[t].stateAtInvoke = "HALF_OPEN"
        /\ cb_call[t].outcome \in OpErrors
        /\ failure_threshold = 3
        /\ cb_call[t].countBefore = 3
        /\ failure_count = 4
        /\ state = "OPEN"
        /\ last_failure_time > cb_call[t].startStamp

\* C29: every successful call sets failure_count to 0, and nothing else ever
\* lowers it: not a failed call, not a rejected call, not the passing of
\* time, not the move from OPEN to HALF_OPEN.
C29_ResetOnlyOnSuccess ==
    [][/\ \A t \in SerialCallers :
            (cpc[t] = "on_success" /\ cpc'[t] = "idle") => failure_count' = 0
       /\ failure_count' < failure_count =>
            \E t \in SerialCallers : cpc[t] = "on_success" /\ cpc'[t] = "idle"
      ]_vars

\* A call made in CLOSED with failures on the count has succeeded: the count
\* is 0 again, below a threshold the earlier failures had not reached.
C29_Witness ==
    \E t \in SerialCallers :
        /\ Completed(t)
        /\ cb_call[t].startState = "CLOSED"
        /\ cb_call[t].countBefore > 0
        /\ cb_call[t].result = "returned"
        /\ failure_count = 0
        /\ state = "CLOSED"

-----------------------------------------------------------------------------
(* One request through EdgeCaseHandlingMiddleware.process_request and
   SessionManagementMiddleware.process_request *)

\* What request.path starts with.
RequestPaths == {"static", "media", "health", "favicon", "jsi18n", "admin",
                 "api", "chat"}

\* request.META.get('CONTENT_LENGTH', 0): absent, numbers, and not a number.
ContentLengths == {"", "0", "10485760", "10485761", "abc"}

\* request.META.get('CONTENT_TYPE', '')
ContentTypes == {"", "application/json", "text/plain"}

\* 10 * 1024 * 1024
MaxBody_less == 10 * 1024 * 1024 - 1
MaxBody == 10 * 1024 * 1024

\* int(content_length) raises ValueError for text that is not a number.
IsNumber(text) == text \in {"0", "10485760", "10485761"}

\* int(content_length)
int(text) ==
    CASE text = "0" -> 0
      [] text = "10485760" -> 10485760
      [] text = "10485761" -> 10485761
      [] OTHER -> 0

\* request.method in ['POST', 'PUT', 'PATCH']
BodyMethods == {"POST", "PUT", "PATCH"}

\* content_type.startswith('application/json')
IsJson(content_type) == content_type = "application/json"

\* self.retry_config['max_retries']
retry_config_max_retries == 3

\* request.retry_count before "Set up retry context"
NoRetryContext == -1

\* The stages of SessionManagementMiddleware.process_request.
SessionStages == {"session", "security", "concurrency"}

\* What the view returns.
ViewResponse == Response(200, "ok")

\* An exception leaving process_request: the framework answers 500.
ServerError == Response(500, "exception")

\* The values of str(uuid.uuid4()).
Ids == {"id1", "id2", "id3"}

\* No request_id attribute; no 'error_id' in the body.
NoId == "none"

\* uuid.uuid4(): a value that was not issued before.
uuid4_reused(issued) == Ids
uuid4(issued) == Ids \ issued

RqStart(path, method, content_length, content_type, database_ok, cache_ok) ==
    [path |-> path, method |-> method, content_length |-> content_length,
     content_type |-> content_type, database_ok |-> database_ok,
     cache_ok |-> cache_ok, edge_case |-> "pending", session |-> "pending",
     stages |-> {}, response |-> NoResponse, retry_count |-> NoRetryContext,
     max_retries |-> NoRetryContext, view |-> FALSE, raised |-> "none",
     request_id |-> NoId, error_id |-> NoId, issued |-> {}]

RqInit ==
    \E path \in RequestPaths, method \in Methods,
       content_length \in ContentLengths, content_type \in ContentTypes,
       database_ok \in BOOLEAN, cache_ok \in BOOLEAN :
        rq = RqStart(path, method, content_length, content_type, database_ok,
                     cache_ok)

RqParked == rq = RqStart("chat", "GET", "", "", TRUE, TRUE)

\* _check_system_health: "SELECT 1" on the database, then cache.get; any
\* exception makes it False.
check_system_health_database(database_ok, cache_ok) == database_ok
check_system_health(database_ok, cache_ok) == database_ok /\ cache_ok

\* _create_health_check_response
create_health_check_response == Response(503, "SERVICE_UNAVAILABLE")

\* _validate_request_data: the response it returns, NoResponse for None.
validate_request_data(r) ==
    IF r.method \in BodyMethods /\ r.content_length # ""
       /\ ~IsNumber(r.content_length)
    THEN Response(400, "VALIDATION_ERROR")
    ELSE IF r.method \in BodyMethods /\ r.content_length # ""
            /\ int(r.content_length) > MaxBody
    THEN Response(413, "REQUEST_TOO_LARGE")
    ELSE IF r.path = "api" /\ r.method \in BodyMethods
            /\ ~IsJson(r.content_type)
    THEN Response(400, "INVALID_CONTENT_TYPE")
    ELSE NoResponse

\* EdgeCaseHandlingMiddleware.process_request. It runs unless a middleware
\* before it has answered the request.
ec_process_request ==
    /\ rq.edge_case = "pending"
    /\ rq.response = NoResponse
    /\ ~rq.view
    /\ \E id \in uuid4(rq.issued) :
         LET r == [rq EXCEPT !.edge_case = "done", !.request_id = id,
                             !.issued = @ \cup {id}]
         IN IF ~check_system_health(r.database_ok, r.cache_ok)
            THEN rq' = [r EXCEPT !.stages = @ \cup {"health"},
                                 !.response = create_health_check_response,
                                 !.error_id = r.request_id]
            ELSE IF validate_request_data(r) # NoResponse
            THEN rq' = [r EXCEPT !.stages = @ \cup {"health", "validation"},
                                 !.response = validate_request_data(r)]
            ELSE rq' = [r EXCEPT !.stages = @ \cup {"health", "validation",
                                                    "retry_context"},
                                 !.retry_count = 0,
                                 !.max_retries = retry_config_max_retries]
    /\ UNCHANGED notRq

\* SessionManagementMiddleware.process_request, its session work reduced to
\* the stages run and the way it ends: it passes the request on, answers 403
\* after a failed validation, or raises.
sm_process_request ==
    /\ rq.session = "pending"
    /\ rq.response = NoResponse
    /\ ~rq.view
    /\ IF should_skip_session_management(rq.path)
       THEN rq' = [rq EXCEPT !.session = "done"]
       ELSE \E outcome \in {"pass", "violation", "raised"} :
              rq' = [rq EXCEPT
                       !.session = "done",
                       !.stages = @ \cup (IF outcome = "pass"
                                          THEN SessionStages
                                          ELSE {"session", "security"}),
                       !.response =
                           CASE outcome = "pass" -> NoResponse
                             [] outcome = "violation" ->
                                    Response(403, "SECURITY_VIOLATION")
                             [] OTHER -> ServerError]
    /\ UNCHANGED notRq

\* The view: called when no process_request has answered.
rq_view ==
    /\ rq.edge_case = "done"
    /\ rq.session = "done"
    /\ rq.response = NoResponse
    /\ ~rq.view
    /\ rq' = [rq EXCEPT !.view = TRUE, !.response = ViewResponse]
    /\ UNCHANGED notRq

\* The view raises, and EdgeCaseHandlingMiddleware.process_exception answers:
\* the error id is made before the exception is looked at. When the handler
\* returns None the exception is left to the framework.
rq_process_exception ==
    /\ rq.edge_case = "done"
    /\ rq.session = "done"
    /\ rq.response = NoResponse
    /\ ~rq.view
    /\ \E e \in Exceptions, error_id \in uuid4(rq.issued) :
         LET breakers == IF get_service_name_from_request(<<rq.path>>) # "none"
                         THEN get_circuit_breaker(circuit_breakers,
                                  get_service_name_from_request(<<rq.path>>))
                         ELSE circuit_breakers
             response == exception_response(breakers, <<rq.path>>, e)
         IN rq' = [rq EXCEPT
                     !.view = TRUE, !.raised = e,
                     !.issued = @ \cup {error_id},
                     !.response = IF response = NoResponse THEN ServerError
                                  ELSE response,
                     !.error_id = IF response = NoResponse THEN NoId
                                  ELSE error_id]
    /\ UNCHANGED notRq

RqNext ==
    \/ ec_process_request
    \/ sm_process_request
    \/ rq_view
    \/ rq_process_exception

\* The prefixes of C19: static and media assets, health, favicon.
ExemptPrefixes == {"static", "media", "health", "favicon"}

\* Both process_request methods have run, or one has answered.
RqSettled == rq.response # NoResponse \/ (rq.edge_case = "done" /\ rq.session = "done")

\* C19 (as stated): for a request whose path starts with an exempt prefix no
\* stage runs at all (no health gate, no validation gate, no session stage)
\* and the request reaches the view.
C19_ExemptBypassesAll ==
    rq.path \in ExemptPrefixes =>
        /\ rq.stages = {}
        /\ rq.view \/ rq.response = NoResponse

\* C19 (amended): for a request whose path starts with an exempt prefix no
\* session stage runs (no session creation or update, no security check, no
\* eviction); the health gate still runs, and the request reaches the view
\* exactly when the health gate and the validation gate let it pass.
C19_ExemptBypassesSession ==
    rq.path \in ExemptPrefixes =>
        /\ rq.stages \cap SessionStages = {}
        /\ rq.edge_case = "done" => "health" \in rq.stages
        /\ RqSettled =>
              (rq.view \/ rq.response = NoResponse
                  <=> /\ rq.database_ok /\ rq.cache_ok
                      /\ validate_request_data(rq) = NoResponse)

\* A request to /health/ with the cache down went through both middlewares:
\* only the health gate ran, and it answered 503.
C19_Witness ==
    /\ rq.path = "health"
    /\ rq.edge_case = "done"
    /\ rq.session = "done"
    /\ rq.database_ok /\ ~rq.cache_ok
    /\ rq.stages = {"health"}
    /\ rq.response = create_health_check_response

C21_ValidationGateSize ==
    (rq.edge_case = "done" /\ rq.database_ok /\ rq.cache_ok
       /\ rq.method \in {"POST", "PUT", "PATCH"}) =>
        /\ rq.content_length = "10485761" =>
              (rq.response = Response(413, "REQUEST_TOO_LARGE") /\ ~rq.view)
        /\ rq.content_length \in {"", "0", "10485760"} =>
              rq.response.status # 413

\* An oversized POST to an API path whose content type is not JSON either:
\* the answer is the 413, not the 400 of the content-type check.
C21_Witness ==
    /\ rq.edge_case = "done"
    /\ rq.path = "api" /\ rq.method = "POST"
    /\ rq.content_length = "10485761" /\ rq.content_type = "text/plain"
    /\ rq.response = Response(413, "REQUEST_TOO_LARGE")

\* An error response made by one of the two middlewares (not the framework's
\* own answer to an exception nobody mapped).
ErrorResponse == rq.response.status >= 400 /\ rq.response # ServerError

\* C23 (as stated): every error response of the pipeline - the health gate's
\* 503, the validation gate's 413 and 400, the security 403 and every mapped
\* exception - carries an error id made for it, different from the request id.
C23_ErrorIdFresh ==
    ErrorResponse => (rq.error_id # NoId /\ rq.error_id # rq.request_id)

\* C23 (amended): the response to a mapped exception carries an error id made
\* for it, different from the request id; the health gate's 503 carries the
\* request id as its error id; the validation gate's 413 and 400 and the
\* security 403 carry no error id.
C23_ErrorIdOfMappedExceptions ==
    ErrorResponse =>
        IF rq.raised # "none"
        THEN rq.error_id \in Ids /\ rq.error_id # rq.request_id
        ELSE IF rq.response = create_health_check_response
        THEN rq.error_id = rq.request_id /\ rq.request_id \in Ids
        ELSE rq.error_id = NoId

\* The view raised a DatabaseError, answered 500 with an error id of its own.
C23_Witness ==
    /\ rq.raised = "DatabaseError"
    /\ rq.response.status = 500
    /\ rq.request_id \in Ids
    /\ rq.error_id \in Ids
    /\ rq.error_id # rq.request_id

\* C24: a failing cache, with the database fine, does not fail the request:
\* the cache being down when the request arrives is not answered 503, and a
\* cache error raised by a cache operation under the view is not answered 500.
C24_CacheFailureTolerated ==
    /\ (rq.database_ok /\ ~rq.cache_ok) => rq.response.status # 503
    /\ rq.raised = "RedisError" => rq.response.status # 500

\* The cache is down, the database is not, and
\* EdgeCaseHandlingMiddleware.process_request has run.
C24_Witness ==
    /\ rq.database_ok /\ ~rq.cache_ok
    /\ rq.edge_case = "done"
    /\ rq.request_id \in Ids

-----------------------------------------------------------------------------
(* GracefulDegradationMiddleware *)

\* Request paths: under /api/v1/chatbot/, under /api/v1/email/, elsewhere.
DgPaths == {<<"api", "v1", "chatbot", "conversations">>,
            <<"api", "v1", "email", "send">>,
            <<"page">>}

\* request.degradation_mode is None; the attribute is not set yet.
NoMode == "none"
NotSet == "not set"

DgStart(path, database_up, cache_up, openai_up, email_up) ==
    [path |-> path, database_up |-> database_up, cache_up |-> cache_up,
     openai_up |-> openai_up, email_up |-> email_up, pc |-> "request",
     degradation_mode |-> NotSet, header |-> NoMode]

DgInit ==
    \E path \in DgPaths, database_up \in BOOLEAN, cache_up \in BOOLEAN,
       openai_up \in BOOLEAN, email_up \in BOOLEAN :
        dg = DgStart(path, database_up, cache_up, openai_up, email_up)

DgParked == dg = DgStart(<<"page">>, TRUE, TRUE, TRUE, TRUE)

\* _check_openai_availability, _check_email_service_availability: the body
\* of the try is "return True"; the service is not asked.
check_openai_availability(openai_up) == TRUE
check_email_service_availability(email_up) == TRUE

\* _check_degradation_mode; the database and the cache are probed with
\* "SELECT 1" and cache.get.
check_degradation_mode(r) ==
    IF ~r.database_up THEN "database_unavailable"
    ELSE IF ~r.cache_up THEN "cache_unavailable"
    ELSE IF Contains(r.path, "chatbot") /\ ~check_openai_availability(r.openai_up)
         THEN "ai_service_unavailable"
    ELSE IF Contains(r.path, "email")
            /\ ~check_email_service_availability(r.email_up)
         THEN "email_service_unavailable"
    ELSE NoMode

\* GracefulDegradationMiddleware.process_request: it returns None always.
dg_process_request ==
    /\ dg.pc = "request"
    /\ dg' = [dg EXCEPT !.pc = "view",
                        !.degradation_mode = check_degradation_mode(dg)]
    /\ UNCHANGED notDg

\* The view.
dg_view ==
    /\ dg.pc = "view"
    /\ dg' = [dg EXCEPT !.pc = "response"]
    /\ UNCHANGED notDg

\* GracefulDegradationMiddleware.process_response: X-Degradation-Mode
dg_process_response ==
    /\ dg.pc = "response"
    /\ dg' = [dg EXCEPT !.pc = "done",
                        !.header = IF dg.degradation_mode \notin {NotSet, NoMode}
                                   THEN dg.degradation_mode ELSE NoMode]
    /\ UNCHANGED notDg

DgNext ==
    \/ dg_process_request
    \/ dg_view
    \/ dg_process_response

\* The mode the state of the dependencies calls for, checked in the order
\* database, cache, AI (chatbot paths), email (email paths).
ModeCalledFor ==
    IF ~dg.database_up THEN "database_unavailable"
    ELSE IF ~dg.cache_up THEN "cache_unavailable"
    ELSE IF Contains(dg.path, "chatbot") /\ ~dg.openai_up THEN "ai_service_unavailable"
    ELSE IF Contains(dg.path, "email") /\ ~dg.email_up THEN "email_service_unavailable"
    ELSE NoMode

\* C25: once process_request has run, degradation_mode is the mode of the
\* first unavailable dependency in the order database, cache, AI provider (on
\* chatbot paths), email (on email paths), and none when all are available;
\* the request goes on to the view, and the response carries the
\* degradation-mode header exactly when a mode was set.
C25_DegradationMode ==
    /\ dg.pc # "request" => dg.degradation_mode = ModeCalledFor
    /\ dg.pc = "done" => dg.header = ModeCalledFor

\* A chatbot request handled while the AI provider is down and the database
\* and the cache are available.
C25_Witness ==
    /\ Contains(dg.path, "chatbot")
    /\ dg.database_up /\ dg.cache_up /\ ~dg.openai_up
    /\ dg.pc = "done"

\* No call is in progress.
NoCallInProgress == \A t \in Callers : cpc[t] = "idle"

\* C33: once more than recovery_timeout has elapsed since the last failure
\* of an OPEN breaker, the state read from it is HALF_OPEN already, before
\* any further call: no OPEN breaker is seen with the timeout elapsed.
C33_HalfOpenOnceElapsed ==
    (NoCallInProgress /\ last_failure_time # NoTime /\ RecoveryElapsed) =>
        state # "OPEN"

\* The breaker opened by a failure at time 0, read after the timeout and
\* before any further call.
C33_Witness ==
    /\ NoCallInProgress
    /\ state = "OPEN"
    /\ last_failure_time = 0
    /\ RecoveryElapsed
    /\ \E t \in SerialCallers : FailedCall(t) /\ cb_call[t].endTime = 0

\* C34: with calls made one at a time and failure_threshold >= 1, a CLOSED
\* breaker has failure_count < failure_threshold, and an OPEN or HALF_OPEN
\* breaker has failure_count >= failure_threshold.
C34_CountMatchesState ==
    /\ state = "CLOSED" => failure_count < failure_threshold
    /\ state \in {"OPEN", "HALF_OPEN"} => failure_count >= failure_threshold

\* A HALF_OPEN breaker of threshold 2 or more during its trial call, and a
\* count above the threshold from an earlier failed trial.
C34_Witness ==
    /\ state = "HALF_OPEN"
    /\ failure_threshold >= 2
    /\ failure_count > failure_threshold
    /\ \E t \in SerialCallers : cpc[t] = "invoke"

\* Caller t is rejected in this step: call() raises "Circuit breaker is OPEN".
Rejected(t) ==
    /\ cpc[t] = "idle"
    /\ cpc'[t] = "idle"
    /\ cb_call'[t].result = "circuit_open"
    /\ state = "OPEN"
    /\ ~RecoveryElapsed

\* C35: a call rejected because the breaker is OPEN leaves failure_count,
\* last_failure_time and state unchanged, so the time at which a trial call
\* becomes possible is not moved by rejected calls.
C35_RejectionChangesNothing ==
    [][\A t \in SerialCallers :
          Rejected(t) =>
            /\ UNCHANGED <<failure_count, last_failure_time, state>>
            /\ last_failure_time' + recovery_timeout' = last_failure_time + recovery_timeout]_vars

\* A call rejected one second after the failure that opened the breaker.
C35_Witness ==
    \E t \in SerialCallers :
        /\ Completed(t)
        /\ cb_call[t].result = "circuit_open"
        /\ cb_call[t].startState = "OPEN"
        /\ cb_call[t].endTime = now
        /\ now = last_failure_time + 1
        /\ state = "OPEN"
        /\ failure_count = cb_call[t].countBefore

\* C36: HALF_OPEN lasts only as long as the trial call: whatever
\* expected_exception is and however func ends (a value, an error that is
\* monitored, an error that is not), once the call has completed the state
\* is CLOSED or OPEN.
C36_HalfOpenTransient ==
    (NoCallInProgress /\ \E t \in SerialCallers : Completed(t)) =>
        state \in {"CLOSED", "OPEN"}

\* The trial call raised an error that expected_exception does not cover.
C36_Witness ==
    /\ NoCallInProgress
    /\ state = "HALF_OPEN"
    /\ \E t \in SerialCallers :
         /\ Completed(t)
         /\ cb_call[t].startState = "OPEN"
         /\ cb_call[t].result = "raised"
         /\ ~IsInstance(cb_call[t].value, expected_exception)

\* C37: whenever the state is OPEN, last_failure_time is set.
C37_OpenHasStamp ==
    state = "OPEN" => last_failure_time # NoTime

\* An OPEN breaker whose last failure was recorded after time 0.
C37_Witness ==
    /\ state = "OPEN"
    /\ last_failure_time > 0
    /\ \E t \in SerialCallers : FailedCall(t) /\ cb_call[t].endTime = last_failure_time

-----------------------------------------------------------------------------
(* RetryMiddleware: one request *)

RmStart(method, class, status_code, max_retries, retry_delay, backoff_factor) ==
    [method |-> method,
     exception |-> [class |-> class, status_code |-> status_code],
     max_retries |-> max_retries, retry_delay |-> retry_delay,
     backoff_factor |-> backoff_factor, pc |-> "request", retry_count |-> 0,
     view_calls |-> 0, slept |-> <<>>, outcome |-> "none"]

\* The request, the exception its view raises if it raises, and
\* settings.MAX_RETRIES, RETRY_DELAY and BACKOFF_FACTOR.
RmInit ==
    \E method \in Methods, class \in Exceptions, status_code \in {NoStatus, 404, 503},
       max_retries \in 0..MaxRetries, retry_delay \in 1..MaxDelay,
       backoff_factor \in 1..MaxBackoff :
        rm = RmStart(method, class, status_code, max_retries, retry_delay,
                     backoff_factor)

RmParked == rm = RmStart("GET", "Exception", NoStatus, 0, 1, 1)

\* RetryMiddleware.process_request
rm_process_request ==
    /\ rm.pc = "request"
    /\ rm' = [rm EXCEPT !.pc = "view", !.retry_count = 0]
    /\ UNCHANGED notRm

\* The view is called: it returns a response, or raises the exception.
rm_view ==
    /\ rm.pc = "view"
    /\ \E raises \in BOOLEAN :
         rm' = [rm EXCEPT !.view_calls = @ + 1,
                          !.pc = IF raises THEN "exception" ELSE "done",
                          !.outcome = IF raises THEN "none" ELSE "returned"]
    /\ UNCHANGED notRm

\* RetryMiddleware.process_exception: every path returns None, and an
\* exception for which process_exception returns None goes on to the
\* framework's handling of it; the view is not called again.
rm_process_exception ==
    /\ rm.pc = "exception"
    /\ rm' = IF ~should_retry(rm.method, rm.exception)
             THEN [rm EXCEPT !.pc = "done", !.outcome = "propagated"]
             ELSE IF rm.retry_count + 1 <= rm.max_retries
             THEN [rm EXCEPT
                     !.pc = "done", !.outcome = "propagated",
                     !.retry_count = @ + 1,
                     !.slept = Append(@, process_exception_delay(
                                   rm.retry_delay, rm.backoff_factor,
                                   rm.retry_count + 1))]
             ELSE [rm EXCEPT !.pc = "done", !.outcome = "propagated",
                             !.retry_count = @ + 1]
    /\ UNCHANGED notRm

RmNext ==
    \/ rm_process_request
    \/ rm_view
    \/ rm_process_exception

\* C31: a request whose view fails with a retryable error has its view called
\* again after the backoff delay, until max_retries retries have been made;
\* so its error is propagated only once the view has been called
\* max_retries + 1 times.
C31_RetriesBeforePropagating ==
    (rm.pc = "done" /\ rm.outcome = "propagated"
       /\ should_retry(rm.method, rm.exception)) =>
        rm.view_calls = rm.max_retries + 1

\* A GET whose view raised a retryable error with MAX_RETRIES = 3: the
\* middleware has slept the first delay and the error is on its way out.
C31_Witness ==
    /\ rm.pc = "done"
    /\ rm.outcome = "propagated"
    /\ rm.method = "GET"
    /\ rm.exception.class = "Timeout"
    /\ rm.max_retries = 3
    /\ rm.retry_count = 1
    /\ Len(rm.slept) = 1

-----------------------------------------------------------------------------
(* _detect_suspicious_activity and the cache's expiry *)

\* line 284: cache.set(cache_key, request_count + 1, 60), in seconds
RateTtl == 60

\* The clock advances by this many seconds at a time.
MaxBurst == 2
ClockStep == 30
MaxRateClock == 1800

NotCached == -1

RwStart ==
    [now |-> 0, value |-> 0, expires |-> NotCached, counted |-> <<>>,
     burst |-> 0, flagged |-> FALSE, checked |-> FALSE, within |-> 0]

RwInit == rw = RwStart

RwParked == rw = RwStart

\* cache.get(cache_key, 0): the default once the entry has expired
cache_get(entry) ==
    IF entry.expires = NotCached \/ entry.expires <= entry.now THEN 0
    ELSE entry.value

\* The times of the requests counted in the 60 seconds before now.
CountedWithin(entry) == SelectSeq(entry.counted, LAMBDA t : t > entry.now - RateTtl)

\* _detect_suspicious_activity(request) for one (ip, user): a request that
\* is not flagged stores count + 1 with a new 60 seconds to live.
rw_detect_suspicious_activity ==
    /\ rw.burst < MaxBurst
    /\ LET request_count == cache_get(rw)
           recent == CountedWithin(rw)
       IN  rw' = IF Suspicious(request_count)
                 THEN [rw EXCEPT !.flagged = TRUE, !.checked = TRUE,
                                 !.within = Len(recent), !.counted = recent,
                                 !.burst = @ + 1]
                 ELSE [rw EXCEPT !.flagged = FALSE, !.checked = TRUE,
                                 !.within = Len(recent),
                                 !.value = Incremented(request_count),
                                 !.expires = rw.now + RateTtl,
                                 !.counted = Append(recent, rw.now),
                                 !.burst = @ + 1]
    /\ UNCHANGED notRw

\* time.time() moves on.
rw_tick ==
    /\ rw.now + ClockStep <= MaxRateClock
    /\ rw' = [rw EXCEPT !.now = @ + ClockStep, !.burst = 0,
                        !.counted = SelectSeq(@, LAMBDA t : t > rw.now + ClockStep - RateTtl)]
    /\ UNCHANGED notRw

RwNext ==
    \/ rw_detect_suspicious_activity
    \/ rw_tick

\* C32: the counter is a sliding window of 60 seconds: a request is flagged
\* only if more than 100 requests of its key were counted in the 60 seconds
\* before it.
C32_SlidingWindow ==
    (rw.checked /\ rw.flagged) => rw.within > RateLimit

\* A request flagged although at most four requests of its key were counted
\* in the 60 seconds before it.
C32_Witness ==
    /\ rw.checked
    /\ rw.flagged
    /\ rw.within <= 2 * MaxBurst
    /\ rw.value = RateLimit + 1

-----------------------------------------------------------------------------
(* Specifications, one per component *)

\* CircuitBreaker, calls made one at a time.
Init == CbInit /\ PlParked /\ RtParked /\ SrParked /\ SsParked /\ ScParked /\ RdParked /\ RqParked /\ DgParked /\ RmParked /\ RwParked
Next == CbNext
Spec == Init /\ [][Next]_vars

\* CircuitBreaker, called by threads that share it.
InitConcurrent == CbInitConcurrent /\ PlParked /\ RtParked /\ SrParked /\ SsParked /\ ScParked /\ RdParked /\ RqParked /\ DgParked /\ RmParked /\ RwParked
SpecConcurrent == InitConcurrent /\ [][CbNextConcurrent]_vars

\* EdgeCaseHandlingMiddleware.process_exception
InitPipeline == CbParked /\ PlInit /\ RtParked /\ SrParked /\ SsParked /\ ScParked /\ RdParked /\ RqParked /\ DgParked /\ RmParked /\ RwParked
SpecPipeline == InitPipeline /\ [][PlNext]_vars

\* retry_on_failure. The wrapper is a sequential loop: it keeps running until
\* it returns or raises.
InitRetry == CbParked /\ PlParked /\ RtInit /\ SrParked /\ SsParked /\ ScParked /\ RdParked /\ RqParked /\ DgParked /\ RmParked /\ RwParked
SpecRetry == InitRetry /\ [][RtNext]_vars /\ WF_vars(RtNext)

\* RetryMiddleware._should_retry
InitShouldRetry == CbParked /\ PlParked /\ RtParked /\ SrInit /\ SsParked /\ ScParked /\ RdParked /\ RqParked /\ DgParked /\ RmParked /\ RwParked
SpecShouldRetry == InitShouldRetry /\ [][SrNext]_vars

\* UserSession and SessionManagementMiddleware, requests handled concurrently.
InitSessions == CbParked /\ PlParked /\ RtParked /\ SrParked /\ SsInit /\ ScParked /\ RdParked /\ RqParked /\ DgParked /\ RmParked /\ RwParked
SpecSessions == InitSessions /\ [][SsNext]_vars

\* The same, requests handled one at a time.
SpecSessionsSerial == InitSessions /\ [][SsNextSerial]_vars

\* The same, for a user who logs in on several devices.
InitGate == CbParked /\ PlParked /\ RtParked /\ SrParked /\ GateInit /\ ScParked /\ RdParked /\ RqParked /\ DgParked /\ RmParked /\ RwParked
SpecSessionsGate == InitGate /\ [][SsNextGate]_vars

\* _check_session_consistency
InitConsistency == CbParked /\ PlParked /\ RtParked /\ SrParked /\ SsParked /\ ScInit /\ RdParked /\ RqParked /\ DgParked /\ RmParked /\ RwParked
SpecConsistency == InitConsistency /\ [][ScNext]_vars

\* _detect_suspicious_activity
InitRate == CbParked /\ PlParked /\ RtParked /\ SrParked /\ SsParked /\ ScParked /\ RdInit /\ RqParked /\ DgParked /\ RmParked /\ RwParked
SpecRate == InitRate /\ [][RdNext]_vars

\* UserSession.end_session
InitEndSession == CbParked /\ PlParked /\ RtParked /\ SrParked /\ EsInit /\ ScParked /\ RdParked /\ RqParked /\ DgParked /\ RmParked /\ RwParked
SpecEndSession == InitEndSession /\ [][EsNext]_vars

\* One request through both process_request methods, in either order.
InitRequest == CbParked /\ PlParked /\ RtParked /\ SrParked /\ SsParked /\ ScParked /\ RdParked /\ RqInit /\ DgParked /\ RmParked /\ RwParked
SpecRequest == InitRequest /\ [][RqNext]_vars

\* GracefulDegradationMiddleware
InitDegradation == CbParked /\ PlParked /\ RtParked /\ SrParked /\ SsParked /\ ScParked /\ RdParked /\ RqParked /\ DgInit /\ RmParked /\ RwParked
SpecDegradation == InitDegradation /\ [][DgNext]_vars

\* RetryMiddleware
InitRetryMiddleware == CbParked /\ PlParked /\ RtParked /\ SrParked /\ SsParked /\ ScParked /\ RdParked /\ RqParked /\ DgParked /\ RmInit /\ RwParked
SpecRetryMiddleware == InitRetryMiddleware /\ [][RmNext]_vars

\* _detect_suspicious_activity against the clock
InitRateWindow == CbParked /\ PlParked /\ RtParked /\ SrParked /\ SsParked /\ ScParked /\ RdParked /\ RqParked /\ DgParked /\ RmParked /\ RwInit
SpecRateWindow == InitRateWindow /\ [][RwNext]_vars
====
